---- MODULE Spec2Model ----
(***************************************************************************)
(* Group-membership reconciliation of noname9006/discord_contentoor_test.  *)
(*                                                                         *)
(* Two versions of class MemberTracker live in the repository:             *)
(*   impl = "role"  src/memberTracker.js  checkThreadMembers /             *)
(*                                        removeInvalidMembers             *)
(*   impl = "cap"   src/unnamed/part_000  checkThreadMemberCount /         *)
(*                                        removeExcessMembers              *)
(* Init picks one; the actions follow that version's code.  JavaScript is  *)
(* single threaded: an action is the synchronous code between two awaits   *)
(* of one invocation, and the \E of an action is the result of the await   *)
(* it resumes from.                                                        *)
(***************************************************************************)
EXTENDS Integers, Sequences, FiniteSets, TLC

(* ------------------------------ bounds -------------------------------- *)
MaxMembers == 2      \* largest roster a fetch returns
MaxPos == 1          \* role positions are 0..MaxPos
MaxJoin == 1         \* join timestamps are 0..MaxJoin
MaxInv == 2          \* concurrent invocations of the entry point
BATCH_SIZE == 1      \* 50 in the source, scaled to the roster bound
MAX_MEMBERS == 1     \* process.env.MAX_MEMBERS of the cap version
MaxRuns == 2         \* calls of the ThreadCleaner that are in flight at a time
BOT_ID == 0          \* client.user.id
MaxOps == 2          \* message handlers in flight at a time
MaxHandlers == 2     \* messages given to handleUrlMessage
MaxTiers == 2        \* THREAD_n_ID variables in the environment of init()

Threads == {"t1", "t2"}
Roles == {"r1", "ig"}
Inv == 1..MaxInv
Positions == 0..MaxPos
JoinTimes == 0..MaxJoin
LEFT_GUILD == "Unknown (Left Guild)"
NoPos == -1          \* a candidate without a highestRolePosition property
NoMe == -1           \* guild.members.me is null
NoMember == [bot |-> FALSE, roles |-> {}, position |-> NoPos]

VARIABLES
  impl,               \* which version of MemberTracker runs
  trackedThreads,     \* Map threadId -> threadConfig
  processingThreads,  \* Set of threadIds being processed (the guard)
  roleToThread, threadToRole, ignoredRoles,
  inv,                \* the invocations of the entry point and their locals
  botPos, meCached,   \* the bot's highest role position; is guild.members.me set
  batchSize,          \* const BATCH_SIZE of the reconciler
  boot,               \* init(): where it stands, the THREAD_n_ID / ROLE_n_ID tiers
                      \* still to process and (history) the tiers it skipped
  evaluation,         \* history: the last call of shouldMemberBeInThread
  event,              \* history: what the last step observed (a skipped trigger,
                      \* a failed fetch) and for which thread
  calls,              \* history: ids a removal call was issued for in this pass
  built,              \* history: the queue the last fresh pass built
  batches,            \* history: batches taken from that queue so far
  seen,               \* history: the roster entries the queue was built from,
                      \* in the state the build loop leaves behind
  detached,           \* threadConfig objects an invocation still holds after
                      \* trackedThreads.clear() took them out of the Map
  tick,               \* checkAllThreads(): the threads it has still to check
  cleaner,            \* ThreadCleaner: isRunning and its cleanup runs
  threadNameCache,    \* part_001: Map threadId -> {name, timestamp, pendingOps}
  nameOps,            \* part_001: the message handlers that called getThreadName
  urls,               \* UrlStorage: Map channelId -> array of url entries
  urlOps              \* UrlTracker: the calls of handleUrlMessage and their locals

directory == <<roleToThread, threadToRole, ignoredRoles>>
\* the other services of the bot, which the tracker does not touch
services == <<cleaner, threadNameCache, nameOps, urls, urlOps>>
env == <<impl, botPos, meCached, batchSize, services>>
startup == <<boot, evaluation>>
hist == <<calls, built, batches>>
vars == <<impl, trackedThreads, processingThreads, roleToThread, threadToRole,
          ignoredRoles, inv, botPos, meCached, batchSize, boot, evaluation,
          event, calls, built, batches, seen, detached, tick, cleaner,
          threadNameCache, nameOps, urls, urlOps>>

(* ------------------------------- data --------------------------------- *)
\* (isArray: remainingMembers is there and Array.isArray holds of it)
NoState == [exists |-> FALSE, processedCount |-> 0, totalCount |-> 0,
            remainingMembers |-> <<>>, isArray |-> TRUE]
\* removalState of the cap version names totalCount targetCount
NewState(target) == [exists |-> TRUE, processedCount |-> 0, totalCount |-> target,
                     remainingMembers |-> <<>>, isArray |-> TRUE]
NewConfig == [lastCheck |-> "0", removalState |-> NoState]
NoMapping == [x \in {} |-> ""]
\* Map.prototype.set
MapSet(f, k, v) == [x \in DOMAIN f \cup {k} |-> IF x = k THEN v ELSE f[x]]
\* Map.prototype.delete
MapDelete(f, k) == [x \in DOMAIN f \ {k} |-> f[x]]
\* checkAllThreads is not running
NoTick == [pc |-> "idle", todo |-> <<>>, slot |-> 0, visited |-> {}, failed |-> {}]

\* logger.js:216-221  ThreadCleaner: no run of performCleanup or
\* cleanSpecificThread is under way (tiers: the ROLE_n_ID / THREAD_n_ID pairs
\* of process.env, tier n at index n + 1; last: what the last step did)
Runs == 1..MaxRuns
NoRun == [pc |-> "idle", kind |-> "", threadIds |-> <<>>, members |-> <<>>,
          removed |-> 0]
NoCleaner == [isRunning |-> FALSE, tiers |-> <<>>, run |-> [r \in Runs |-> NoRun],
              last |-> "none"]

\* part_001:32  threadNameCache = new Map(); an entry is {name, timestamp,
\* pendingOps}.  The name is not modelled, and instead of the timestamp the
\* cleanup timer is told for which entries THREAD_CACHE_TTL has elapsed.
NameThreads == {"t1", "t2"}
NoEntry == [cached |-> FALSE, pendingOps |-> 0]
NoNames == [t \in NameThreads |-> NoEntry]
\* part_001:700-762  the message handlers: idle, waiting for the channels.fetch
\* of getThreadName, or holding the handle it returned (counted: its done()
\* decrements pendingOps; otherwise done is () => {})
Ops == 1..MaxOps
NoOp == [pc |-> "idle", thr |-> "", counted |-> FALSE]
NoNameOps == [o \in Ops |-> NoOp]

\* memberTracker.js:476-481  UrlStorage: this.urls = new Map().  A url is its
\* text and whether white space surrounds it; an entry of the store is
\* {url, messageId, timestamp, ...}.
Channels == {"c1", "c2"}
NoUrls == [c \in Channels |-> <<>>]
\* urltracker.js:85  the calls of handleUrlMessage: message h has id h and
\* createdTimestamp h
Handlers == 1..MaxHandlers
NoFind == [found |-> FALSE, channelId |-> "", messageId |-> 0]
NoHandler == [pc |-> "idle", channel |-> "", urls |-> <<>>, existing |-> NoFind,
              urlsToStore |-> <<>>]
NoUrlOps == [h \in Handlers |-> NoHandler]
Idle == [pc |-> "idle", thr |-> "", roster |-> <<>>, membersToCheck |-> <<>>,
         nonGuildMembers |-> <<>>, currentBatch |-> <<>>, botMember |-> NoMe,
         seen |-> <<>>]

\* what thread.members.fetch() resolves to: members 1..n with a join timestamp.
\* The code reads the timestamps only to compare them (memberTracker.js:331,
\* part_000:383-396), so the timestamps of a roster are 0..m without gaps.
Rosters ==
  UNION {{[k \in 1..n |-> [id |-> k, joinedTimestamp |-> f[k]]] :
             f \in {g \in [1..n -> JoinTimes] :
                      \E m \in JoinTimes : {g[k] : k \in 1..n} = 0..m}} :
         n \in 1..MaxMembers}
\* what guild.members.fetch(id) resolves to (NoMember: the .catch returned null)
GuildMembers == [bot : BOOLEAN, roles : SUBSET Roles, position : Positions]

Min(a, b) == IF a < b THEN a ELSE b
\* faulty variant: slice(0, n) returns the first n entries back to front
TakeReversed(s, n) ==
  [k \in 1..Min(n, Len(s)) |-> s[Min(n, Len(s)) + 1 - k]]
Take(s, n) == SubSeq(s, 1, Min(n, Len(s)))
\* faulty variant: slice(n) returns the empty array
DropAll(s, n) == <<>>
Drop(s, n) == SubSeq(s, Min(n, Len(s)) + 1, Len(s))
(* --------------------------- pure functions --------------------------- *)
\* faulty variant: earlier joins first
CmpInvalidAscending(a, b) == a.joinTimestamp - b.joinTimestamp
\* faulty variant: no tie-break on the join timestamp
CmpRegularNoTieBreak(a, b) == b.highestRolePosition - a.highestRolePosition

\* memberTracker.js:331  membersToCheck.sort((a, b) => b.joinTimestamp - a.joinTimestamp)
CmpInvalid(a, b) == b.joinTimestamp - a.joinTimestamp

\* part_000:384-391  regularMembers.sort: higher role first, then earlier join
CmpRegular(a, b) ==
  IF b.highestRolePosition # a.highestRolePosition
  THEN b.highestRolePosition - a.highestRolePosition
  ELSE a.joinTimestamp - b.joinTimestamp

\* part_000:394  nonGuildMembers.sort((a, b) => a.joinTimestamp - b.joinTimestamp)
CmpNonGuild(a, b) == a.joinTimestamp - b.joinTimestamp

Cmp(which, a, b) ==
  CASE which = "invalid" -> CmpInvalid(a, b)
    [] which = "regular" -> CmpRegular(a, b)
    [] which = "nonGuild" -> CmpNonGuild(a, b)

\* Array.prototype.sort is stable: x goes before the first element that the
\* comparator puts strictly after it
RECURSIVE InsertSorted(_, _, _)
InsertSorted(which, s, x) ==
  IF s = <<>> THEN <<x>>
  ELSE IF Cmp(which, Head(s), x) > 0 THEN <<x>> \o s
  ELSE <<Head(s)>> \o InsertSorted(which, Tail(s), x)

RECURSIVE SortFrom(_, _, _)
SortFrom(which, sorted, rest) ==
  IF rest = <<>> THEN sorted
  ELSE SortFrom(which, InsertSorted(which, sorted, Head(rest)), Tail(rest))

Sort(which, s) == SortFrom(which, <<>>, s)

\* faulty variant: the ignored roles are not looked at
shouldMemberBeInThreadNoIgnored(roles, threadId) ==
  IF threadId \notin DOMAIN threadToRole THEN TRUE
  ELSE threadToRole[threadId] \in roles

\* faulty variant: a thread without a required role admits nobody
shouldMemberBeInThreadDefaultDeny(roles, threadId) ==
  IF roles \cap ignoredRoles # {} THEN TRUE
  ELSE IF threadId \notin DOMAIN threadToRole THEN FALSE
  ELSE threadToRole[threadId] \in roles

\* memberTracker.js:205-225
shouldMemberBeInThread(roles, threadId) ==
  IF roles \cap ignoredRoles # {} THEN TRUE
  ELSE IF threadId \notin DOMAIN threadToRole THEN TRUE
  ELSE threadToRole[threadId] \in roles

\* memberTracker.js:289-295 and :313-320, the entries pushed on membersToCheck
LeftGuildCandidate(tm) ==
  [id |-> tm.id, username |-> LEFT_GUILD, highestRolePosition |-> NoPos,
   joinTimestamp |-> tm.joinedTimestamp, shouldRemove |-> TRUE,
   reason |-> "No longer in guild"]
RoleMismatchCandidate(tm, gm) ==
  [id |-> tm.id, username |-> "user", highestRolePosition |-> gm.position,
   joinTimestamp |-> tm.joinedTimestamp, shouldRemove |-> TRUE,
   reason |-> "Role does not match thread"]

\* part_000:328-332 and :364-369
NonGuildMember(tm) ==
  [id |-> tm.id, username |-> LEFT_GUILD, highestRolePosition |-> NoPos,
   joinTimestamp |-> tm.joinedTimestamp]
RegularMember(tm, gm) ==
  [id |-> tm.id, username |-> "user", highestRolePosition |-> gm.position,
   joinTimestamp |-> tm.joinedTimestamp]

\* faulty variant: the gate turns away a candidate without a role position
CannotRemoveNoRank(member, botMember) ==
  /\ botMember # NoMe
  /\ \/ member.highestRolePosition = NoPos
     \/ botMember <= member.highestRolePosition

\* faulty variant: the gate lets a member of equal rank through
CannotRemoveStrict(member, botMember) ==
  /\ member.username # LEFT_GUILD
  /\ botMember # NoMe
  /\ member.highestRolePosition # NoPos
  /\ botMember < member.highestRolePosition

\* faulty variant: without a bot member nobody with a role position is removed
CannotRemoveNoBot(member, botMember) ==
  /\ member.username # LEFT_GUILD
  /\ member.highestRolePosition # NoPos
  /\ botMember = NoMe \/ botMember <= member.highestRolePosition

\* memberTracker.js:406-414 / part_000:498-508: the bot may not remove the member
CannotRemove(member, botMember) ==
  /\ member.username # LEFT_GUILD
  /\ botMember # NoMe
  /\ member.highestRolePosition # NoPos      \* typeof ... === 'number'
  /\ botMember <= member.highestRolePosition

\* faulty variant: the batch is one entry longer than BATCH_SIZE
BatchOfOneMore(remaining) == Take(remaining, batchSize + 1)
\* faulty variant: the batch is the head of the queue only
BatchOfOne(remaining) == Take(remaining, 1)
\* memberTracker.js:375 / part_000:462  remainingMembers.slice(0, BATCH_SIZE)
BatchOf(remaining) == Take(remaining, batchSize)
\* faulty variant: the batch is sliced off but stays on the queue
RestOfKeepsBatch(remaining) == remaining
\* faulty variant: the slice for the next invocation starts one entry too far
RestOfOffByOne(remaining) == Drop(remaining, batchSize + 1)
\* memberTracker.js:376 / part_000:463  remainingMembers.slice(BATCH_SIZE)
RestOf(remaining) == Drop(remaining, batchSize)

\* memberTracker.js:368-372: guild.members.me
\* (part_000:445-454 also awaits fetchMe(), see FetchMeDone)
GuildMe == IF meCached THEN botPos ELSE NoMe
(* ------------- the synchronous code between two awaits ---------------- *)
\* What a stretch of synchronous code leaves behind: the invocation's locals,
\* the thread's removalState, the candidate a removal call was issued for (if
\* any), whether the reconciler returned to the entry point, and (history)
\* whether a batch was sliced off and which queue was built.
Result(loc, st, issued, done, took, queue) ==
  [loc |-> loc, st |-> st, issued |-> issued, done |-> done, took |-> took,
   queue |-> queue]

\* faulty variant: the removalState is kept when the queue is exhausted
BatchEndKeeps(loc, st) == Result(loc, st, <<>>, TRUE, FALSE, <<>>)

\* faulty variant: a failed removal call is counted like a successful one
AfterRemoveCountsFailure(st, ok) == [st EXCEPT !.processedCount = @ + 1]
\* memberTracker.js:418-425 / part_000:512-520: the .then of the removal call
\* increments processedCount, the .catch only logs
AfterRemove(st, ok) == [st EXCEPT !.processedCount = IF ok THEN @ + 1 ELSE @]

\* faulty variant: a candidate the gate turns away is not counted
SkipDeniedUncounted(st) == st
\* faulty variant: a candidate the gate turns away is counted twice
SkipDeniedTwice(st) == [st EXCEPT !.processedCount = @ + 2]
\* memberTracker.js:411 / part_000:505: "count as processed even if we
\* couldn't remove"
SkipDenied(st) == [st EXCEPT !.processedCount = @ + 1]

\* memberTracker.js:435-449 / part_000:531-545: after the batch loop
BatchEnd(loc, st) ==
  IF \/ st.remainingMembers = <<>>
     \/ (impl = "cap" /\ st.processedCount >= st.totalCount)
  THEN Result(loc, NoState, <<>>, TRUE, FALSE, <<>>)
  ELSE Result(loc, st, <<>>, TRUE, FALSE, <<>>)

\* memberTracker.js:391-417 / part_000:479-511: the batch loop from the head of
\* currentBatch up to the next removal call (thread.members.remove is awaited)
RECURSIVE BatchLoop(_, _)
BatchLoop(loc, st) ==
  LET batch == loc.currentBatch IN
  IF batch = <<>> THEN BatchEnd(loc, st)
  ELSE IF impl = "cap" /\ st.processedCount >= st.totalCount
    THEN BatchEnd([loc EXCEPT !.currentBatch = <<>>], st)           \* break
  ELSE IF impl = "role" /\ ~Head(batch).shouldRemove
    THEN BatchLoop([loc EXCEPT !.currentBatch = Tail(batch)],
                   [st EXCEPT !.processedCount = @ + 1])
  ELSE IF CannotRemove(Head(batch), loc.botMember)
    THEN BatchLoop([loc EXCEPT !.currentBatch = Tail(batch)], SkipDenied(st))
  ELSE Result([loc EXCEPT !.pc = "remove"], st, <<Head(batch)>>, FALSE, FALSE, <<>>)

\* faulty variant: the loop goes on to the next candidate without the delay
PaceNone(loc, st) == BatchLoop([loc EXCEPT !.currentBatch = Tail(@)], st)
\* memberTracker.js:427-428 / part_000:523-524: after the removal call has
\* settled the loop awaits the 200 ms timer
Pace(loc, st) == Result([loc EXCEPT !.pc = "delay"], st, <<>>, FALSE, FALSE, <<>>)

\* memberTracker.js:374-386 / part_000:461-474: slice the batch off the queue
StartBatch(loc, st) ==
  LET currentBatch == BatchOf(st.remainingMembers)
      st2 == [st EXCEPT !.remainingMembers = RestOf(st.remainingMembers)]
  IN IF currentBatch = <<>>
     THEN Result(loc, NoState, <<>>, TRUE, FALSE, <<>>)
     ELSE [BatchLoop([loc EXCEPT !.currentBatch = currentBatch], st2)
             EXCEPT !.took = TRUE]

\* faulty variant: the invocation returns before it slices a batch off
PrepareBatchStalls(loc, st) == Result(loc, st, <<>>, TRUE, FALSE, <<>>)

\* faulty variant: the state with the invalid remainingMembers is kept
InvalidStateKept(loc, st) == Result(loc, st, <<>>, TRUE, FALSE, <<>>)
\* memberTracker.js:361-366 / part_000:438-443: "Invalid remainingMembers
\* array": the removalState is deleted and the reconciler returns
InvalidState(loc, st) == Result(loc, NoState, <<>>, TRUE, FALSE, <<>>)

\* memberTracker.js:361-372 / part_000:438-459: the safety check of
\* remainingMembers, then the bot member for the gate
PrepareBatch(loc, st) ==
  IF ~st.isArray THEN InvalidState(loc, st)
  ELSE IF impl = "cap" /\ GuildMe = NoMe
  THEN Result([loc EXCEPT !.pc = "fetchMe"], st, <<>>, FALSE, FALSE, <<>>)
  ELSE StartBatch([loc EXCEPT !.botMember = GuildMe], st)

\* faulty variant: the two sorted lists are concatenated the other way round
SortedMembersRegularFirst(loc) ==
  IF impl = "role" THEN Sort("invalid", loc.membersToCheck)
  ELSE Sort("regular", loc.membersToCheck) \o Sort("nonGuild", loc.nonGuildMembers)

\* memberTracker.js:330-335 / part_000:381-405: the queue of a fresh pass
SortedMembers(loc) ==
  IF impl = "role" THEN Sort("invalid", loc.membersToCheck)
  ELSE Sort("nonGuild", loc.nonGuildMembers) \o Sort("regular", loc.membersToCheck)

\* faulty variant: the size of the queue is not stored in totalCount
FinalizeNoTotal(loc, st) ==
  LET sorted == SortedMembers(loc)
      st2 == [st EXCEPT !.remainingMembers = sorted]
      loc2 == [loc EXCEPT !.roster = <<>>, !.membersToCheck = <<>>,
                          !.nonGuildMembers = <<>>]
  IN IF Len(sorted) = 0
     THEN Result(loc2, NoState, <<>>, TRUE, FALSE, <<sorted>>)
     ELSE [PrepareBatch(loc2, st2) EXCEPT !.queue = <<sorted>>]

\* memberTracker.js:330-346 / part_000:381-423: the end of the build loop
Finalize(loc, st) ==
  LET sorted == SortedMembers(loc)
      total == IF impl = "role" \/ Len(sorted) < st.totalCount
               THEN Len(sorted) ELSE st.totalCount
      st2 == [st EXCEPT !.remainingMembers = sorted, !.totalCount = total]
      loc2 == [loc EXCEPT !.roster = <<>>, !.membersToCheck = <<>>,
                          !.nonGuildMembers = <<>>]
  IN IF Len(sorted) = 0
     THEN Result(loc2, NoState, <<>>, TRUE, FALSE, <<sorted>>)
     ELSE [PrepareBatch(loc2, st2) EXCEPT !.queue = <<sorted>>]

\* faulty variant: candidates are put at the front of the list (unshift)
BuildOneUnshift(loc, gm) ==
  LET tm == Head(loc.roster)
      rest == [loc EXCEPT !.roster = Tail(loc.roster)]
  IN IF impl = "role"
     THEN IF gm = NoMember
            THEN [rest EXCEPT !.membersToCheck = <<LeftGuildCandidate(tm)>> \o @]
          ELSE IF gm.bot THEN rest
          ELSE IF shouldMemberBeInThread(gm.roles, loc.thr) THEN rest
          ELSE [rest EXCEPT !.membersToCheck = <<RoleMismatchCandidate(tm, gm)>> \o @]
     ELSE IF gm = NoMember
            THEN [rest EXCEPT !.nonGuildMembers = <<NonGuildMember(tm)>> \o @]
          ELSE IF gm.bot THEN rest
          ELSE IF gm.roles \cap ignoredRoles # {} THEN rest
          ELSE [rest EXCEPT !.membersToCheck = <<RegularMember(tm, gm)>> \o @]

\* faulty variant: bot accounts are evaluated like any other member
BuildOneWithBots(loc, gm) ==
  LET tm == Head(loc.roster)
      rest == [loc EXCEPT !.roster = Tail(loc.roster)]
  IN IF impl = "role"
     THEN IF gm = NoMember
            THEN [rest EXCEPT !.membersToCheck = Append(@, LeftGuildCandidate(tm))]
          ELSE IF shouldMemberBeInThread(gm.roles, loc.thr) THEN rest
          ELSE [rest EXCEPT !.membersToCheck = Append(@, RoleMismatchCandidate(tm, gm))]
     ELSE IF gm = NoMember
            THEN [rest EXCEPT !.nonGuildMembers = Append(@, NonGuildMember(tm))]
          ELSE IF gm.roles \cap ignoredRoles # {} THEN rest
          ELSE [rest EXCEPT !.membersToCheck = Append(@, RegularMember(tm, gm))]

\* memberTracker.js:268-328 / part_000:294-376: one iteration of the build loop,
\* gm being what guild.members.fetch(threadMember.id) resolved to
BuildOne(loc, gm) ==
  LET tm == Head(loc.roster)
      rest == [loc EXCEPT !.roster = Tail(loc.roster)]
  IN IF impl = "role"
     THEN IF gm = NoMember
            THEN [rest EXCEPT !.membersToCheck = Append(@, LeftGuildCandidate(tm))]
          ELSE IF gm.bot THEN rest
          ELSE IF shouldMemberBeInThread(gm.roles, loc.thr) THEN rest
          ELSE [rest EXCEPT !.membersToCheck = Append(@, RoleMismatchCandidate(tm, gm))]
     ELSE IF gm = NoMember
            THEN [rest EXCEPT !.nonGuildMembers = Append(@, NonGuildMember(tm))]
          ELSE IF gm.bot THEN rest
          ELSE IF gm.roles \cap ignoredRoles # {} THEN rest
          ELSE [rest EXCEPT !.membersToCheck = Append(@, RegularMember(tm, gm))]

(* ------------------------------ the guard ------------------------------ *)
\* faulty variant: the entry point never finds the guard held
GuardNeverHeld(threadId) == FALSE
\* faulty variant: a return path that forgets processingThreads.delete
ReleaseGuardForgotten(held, threadId) == held

\* faulty variant: one guard for all threads
GuardHeldAny(threadId) == processingThreads # {}
\* memberTracker.js:110 / part_000:89  this.processingThreads.has(threadId)
GuardHeld(threadId) == threadId \in processingThreads
\* memberTracker.js:121,136,142,149,159,179 / part_000:100..200
\* this.processingThreads.delete(threadId), explicit or in the finally block
ReleaseGuard(held, threadId) == held \ {threadId}

\* faulty variant: the early return discards the persisted removalState
EarlyReturnDiscarding(loc, st) == Result(loc, NoState, <<>>, TRUE, FALSE, <<>>)

\* memberTracker.js:243 / part_000:236: the reconciler returns early (the roster
\* fetch failed or gave nothing to do, or thread.guild is missing)
EarlyReturn(loc, st) == Result(loc, st, <<>>, TRUE, FALSE, <<>>)

\* Date.now(): lastCheck is "0" until the first stamp; no code reads it, and
\* every later time is the one value Stamped
Stamped == "stamped"

NoEvent == [what |-> "none", thr |-> ""]
Event(what, threadId) == [what |-> what, thr |-> threadId]

(* ------------------------------- actions ------------------------------- *)
\* History of the build loop: what the roster entry tm was, by the rule of the
\* specification (left the guild; a bot; holds an ignored role, or the thread
\* has no required role, or the member holds it; none of these).  The join
\* timestamp is kept for the entries the specification makes candidates, the
\* role position for the last kind only.
Kind(gm, threadId) ==
  IF gm = NoMember THEN "left"
  ELSE IF gm.bot THEN "bot"
  ELSE IF \/ \E r \in gm.roles : r \in ignoredRoles
          \/ threadId \notin DOMAIN threadToRole
          \/ threadToRole[threadId] \in gm.roles
    THEN "eligible"
  ELSE "ineligible"
NoneSeen == [t \in Threads |-> <<>>]
Entry(tm, gm, threadId) ==
  LET kind == Kind(gm, threadId) IN
  [id |-> tm.id, kind |-> kind,
   joinedTimestamp |-> IF kind \in {"left", "ineligible"}
                       THEN tm.joinedTimestamp ELSE 0,
   position |-> IF kind = "ineligible" THEN gm.position ELSE NoPos]

\* init() has returned: nothing is left to process (memberTracker.js:88-89)
Booted == [pc |-> "ready", config |-> <<>>, tiers |-> <<>>, skipped |-> {}]
NoEvaluation == [roles |-> {}, threadId |-> "", result |-> FALSE, made |-> FALSE]

Init ==
  /\ impl \in {"role", "cap"}
  /\ trackedThreads = [t \in {"t1"} |-> NewConfig]
  /\ processingThreads = {}
  /\ roleToThread = [r \in {"r1"} |-> "t1"]
  /\ threadToRole = [t \in {"t1"} |-> "r1"]
  /\ ignoredRoles = {"ig"}
  /\ inv = [i \in Inv |-> Idle]
  /\ botPos \in Positions
  /\ meCached \in BOOLEAN
  /\ event = NoEvent
  /\ calls = [t \in Threads |-> <<>>]
  /\ built = [t \in Threads |-> <<>>]
  /\ batches = [t \in Threads |-> 0]
  /\ seen = NoneSeen
  /\ batchSize = BATCH_SIZE
  /\ boot = Booted
  /\ evaluation = NoEvaluation
  /\ detached = NoMapping
  /\ tick = NoTick
  /\ cleaner = NoCleaner
  /\ threadNameCache = NoNames
  /\ nameOps = NoNameOps
  /\ urls = NoUrls
  /\ urlOps = NoUrlOps
Active(i) == inv[i].pc # "idle"
FreeSlot == CHOOSE i \in Inv : ~Active(i) /\ \A j \in Inv : ~Active(j) => i <= j

\* faulty variant: the duplicate check deletes the guard like the other early returns
SkipDuplicateReleasing(threadId) ==
  /\ event' = Event("skipped", threadId)
  /\ processingThreads' = ReleaseGuard(processingThreads, threadId)
  /\ UNCHANGED <<inv, hist>>

\* memberTracker.js:110-113 / part_000:89-92: "already being processed,
\* skipping duplicate check"; the invocation returns at once
SkipDuplicate(threadId) ==
  /\ event' = Event("skipped", threadId)
  /\ UNCHANGED <<processingThreads, inv, hist>>

\* memberTracker.js:108-123 / part_000:87-102: a trigger (timer tick, membership
\* change, manual check) calls the entry point; the code up to the first await
Enter(threadId) ==
  /\ {i \in Inv : ~Active(i)} # {}
  /\ IF GuardHeld(threadId)
     THEN SkipDuplicate(threadId)
     ELSE IF threadId \notin DOMAIN trackedThreads
     THEN /\ processingThreads' =                              \* add, then delete
               ReleaseGuard(processingThreads \cup {threadId}, threadId)
          /\ event' = NoEvent
          /\ UNCHANGED <<inv, hist>>
     ELSE /\ processingThreads' = processingThreads \cup {threadId}
          /\ inv' = [inv EXCEPT ![FreeSlot] =
                       [Idle EXCEPT !.pc = "fetchThread", !.thr = threadId]]
          /\ event' = NoEvent
          /\ IF trackedThreads[threadId].removalState.exists
             THEN UNCHANGED hist
             ELSE /\ calls' = [calls EXCEPT ![threadId] = <<>>]    \* a new pass
                  /\ built' = [built EXCEPT ![threadId] = <<>>]
                  /\ batches' = [batches EXCEPT ![threadId] = 0]
  /\ seen' = NoneSeen
  /\ UNCHANGED <<trackedThreads, directory, env, startup, detached>>

checkThreadMembers(threadId) == Enter(threadId) /\ UNCHANGED tick

\* The threadConfig object the invocations for threadId hold: the Map's entry,
\* or the object trackedThreads.clear() took out of the Map (the local
\* threadConfig of memberTracker.js:115 and :230 still refers to it)
ConfigOf(threadId) ==
  IF threadId \in DOMAIN detached THEN detached[threadId]
  ELSE trackedThreads[threadId]
\* faulty variant: at the end of a pass the thread's entry is deleted from the
\* Map instead of the removalState from the entry
PutDeleting(threadId, config, set) ==
  IF set /\ ~config.removalState.exists
  THEN /\ trackedThreads' = MapDelete(trackedThreads, threadId)
       /\ detached' = MapDelete(detached, threadId)
  ELSE IF threadId \in DOMAIN detached
  THEN /\ detached' = [detached EXCEPT ![threadId] = config]
       /\ UNCHANGED trackedThreads
  ELSE /\ trackedThreads' = [trackedThreads EXCEPT ![threadId] = config]
       /\ UNCHANGED detached

\* An invocation assigns to its threadConfig object; with set the code also
\* calls this.trackedThreads.set(threadId, threadConfig)
Put(threadId, config, set) ==
  IF set
  THEN /\ trackedThreads' = MapSet(trackedThreads, threadId, config)
       /\ detached' = MapDelete(detached, threadId)
  ELSE IF threadId \in DOMAIN detached
  THEN /\ detached' = [detached EXCEPT ![threadId] = config]
       /\ UNCHANGED trackedThreads
  ELSE /\ trackedThreads' = [trackedThreads EXCEPT ![threadId] = config]
       /\ UNCHANGED detached

\* The invocation leaves the entry point without touching lastCheck
\* (memberTracker.js:134-151, 174-180 / part_000:113-131, 163-177, 195-201)
Leave(i, ev) ==
  /\ inv' = [inv EXCEPT ![i] = Idle]
  /\ processingThreads' = ReleaseGuard(processingThreads, inv[i].thr)
  /\ event' = ev
  /\ seen' = NoneSeen
  /\ detached' = MapDelete(detached, inv[i].thr)
  /\ UNCHANGED <<trackedThreads, directory, env, startup, tick, hist>>

\* The invocation moves on to its next await
Goto(i, pc) ==
  /\ inv' = [inv EXCEPT ![i].pc = pc]
  /\ event' = NoEvent
  /\ seen' = NoneSeen
  /\ UNCHANGED <<trackedThreads, processingThreads, directory, env, startup, tick,
                 hist, detached>>

\* The reconciler (removeInvalidMembers / removeExcessMembers) ran up to its
\* next await or returned; on return the entry point stamps lastCheck and
\* releases the guard (memberTracker.js:156-160, 168-180 / part_000:136-142,
\* 188-201)
Apply(i, r, ev) ==
  LET t == inv[i].thr IN
  /\ Put(t, [lastCheck |-> IF r.done THEN Stamped ELSE ConfigOf(t).lastCheck,
             removalState |-> r.st], r.done)
  /\ inv' = [inv EXCEPT ![i] = IF r.done THEN Idle
                               ELSE IF r.queue # <<>> THEN [r.loc EXCEPT !.seen = <<>>]
                               ELSE r.loc]
  /\ processingThreads' =
       IF r.done THEN ReleaseGuard(processingThreads, t) ELSE processingThreads
  /\ calls' = [calls EXCEPT ![t] = @ \o [k \in 1..Len(r.issued) |-> r.issued[k].id]]
  /\ built' = IF r.queue # <<>> THEN [built EXCEPT ![t] = r.queue[1]] ELSE built
  /\ batches' = IF r.took THEN [batches EXCEPT ![t] = @ + 1] ELSE batches
  /\ seen' = IF r.queue # <<>> THEN [NoneSeen EXCEPT ![t] = r.loc.seen]
             ELSE NoneSeen
  /\ event' = ev
  /\ UNCHANGED <<directory, env, startup, tick>>

\* memberTracker.js:127-161 / part_000:106-143: client.channels.fetch resolved
FetchThreadResolved(i, res) ==
  /\ inv[i].pc = "fetchThread"
  /\ IF res = "error" THEN Leave(i, Event("fetchFailed", inv[i].thr))
     ELSE IF res # "ok" THEN Leave(i, NoEvent)
     ELSE IF ConfigOf(inv[i].thr).removalState.exists
     THEN Goto(i, "fetchMembers")
     ELSE Goto(i, "count")

FetchThreadDone(i) ==
  \E res \in {"error", "notThread", "badMembers", "throw", "ok"} :
     FetchThreadResolved(i, res)

\* memberTracker.js:164-168 (getThreadMemberCount, only logged)
\* part_000:145-189 (members.fetch: failed, within maxMembers, above it)
CountResolved(i, res) ==
  /\ inv[i].pc = "count"
  /\ IF impl = "cap" /\ res = "failed"
     THEN Leave(i, Event("fetchFailed", inv[i].thr))
     ELSE IF impl = "cap" /\ res = "within"
     THEN Apply(i, Result(inv[i], ConfigOf(inv[i].thr).removalState,
                          <<>>, TRUE, FALSE, <<>>), NoEvent)
     ELSE Goto(i, "fetchMembers")

CountDone(i) == \E res \in {"failed", "within", "above"} : CountResolved(i, res)

\* faulty variant: every invocation builds the queue anew
ContinuingNever(st) == FALSE
\* memberTracker.js:253 / part_000:262-265: is there a removalState to go on with
Continuing(st) ==
  IF impl = "role" THEN st.exists
  ELSE st.exists /\ st.isArray /\ st.remainingMembers # <<>>

\* What the reconciler's thread.members.fetch() may resolve to.  A continuation
\* reads only the size of the roster, so one roster of each size stands for all.
FetchedRosters(st) ==
  IF st.exists
  THEN {<<>>} \cup {[k \in 1..n |-> [id |-> k, joinedTimestamp |-> 0]] : n \in 1..MaxMembers}
  ELSE {<<>>} \cup Rosters

\* memberTracker.js:243-259 / part_000:236-277: the reconciler has its
\* threadMembers (failed: they are the empty Map of the .catch); guild is
\* thread.guild
FetchMembersSettled(i, roster, guild, failed) ==
  /\ inv[i].pc = "fetchMembers"
  /\   LET t == inv[i].thr
           st == ConfigOf(t).removalState
           noAction == IF impl = "role" THEN roster = <<>>
                       ELSE Len(roster) <= MAX_MEMBERS
           continuing == Continuing(st)
           target == IF impl = "role" THEN 0 ELSE Len(roster) - MAX_MEMBERS
       IN IF noAction \/ ~guild
          THEN Apply(i, EarlyReturn(inv[i], st),
                     IF failed THEN Event("fetchFailed", t)
                     ELSE IF roster = <<>> THEN Event("emptyRoster", t)
                     ELSE NoEvent)
          ELSE IF continuing
          THEN Apply(i, PrepareBatch(inv[i], st),
                     IF st.isArray THEN NoEvent ELSE Event("invalidState", t))
          ELSE /\ Put(t, [ConfigOf(t) EXCEPT !.removalState = NewState(target)],
                      FALSE)
               /\ inv' = [inv EXCEPT ![i].pc = "build", ![i].roster = roster]
               /\ calls' = [calls EXCEPT ![t] = <<>>]
               /\ built' = [built EXCEPT ![t] = <<>>]
               /\ batches' = [batches EXCEPT ![t] = 0]
               /\ seen' = NoneSeen
               /\ event' = NoEvent
               /\ UNCHANGED <<processingThreads, directory, env, startup, tick>>

\* memberTracker.js:237 / part_000:230: thread.members.fetch() resolved to roster
FetchMembersResolved(i, roster, guild) == FetchMembersSettled(i, roster, guild, FALSE)
\* memberTracker.js:238-241 / part_000:231-234: it was rejected and the .catch
\* returned new Map()
FetchMembersRejected(i, guild) == FetchMembersSettled(i, <<>>, guild, TRUE)

FetchMembersDone(i) ==
  /\ inv[i].pc = "fetchMembers"
  /\ \E guild \in BOOLEAN :
       \/ \E roster \in FetchedRosters(ConfigOf(inv[i].thr).removalState) :
             FetchMembersResolved(i, roster, guild)
       \/ FetchMembersRejected(i, guild)

\* memberTracker.js:268-346 / part_000:294-423: guild.members.fetch resolved for
\* the roster entry at hand; after the last entry the queue is sorted and stored
BuildResolved(i, gm) ==
  /\ inv[i].pc = "build"
  /\ LET loc == [BuildOne(inv[i], gm) EXCEPT
                   !.seen = Append(@, Entry(Head(inv[i].roster), gm, inv[i].thr))]
         st == ConfigOf(inv[i].thr).removalState
     IN IF loc.roster = <<>>
        THEN Apply(i, Finalize(loc, st), NoEvent)
        ELSE Apply(i, Result(loc, st, <<>>, FALSE, FALSE, <<>>), NoEvent)

BuildStep(i) == \E gm \in GuildMembers \cup {NoMember} : BuildResolved(i, gm)

\* part_000:449-451: guild.members.fetchMe() resolved (null when it failed)
FetchMeDone(i) ==
  /\ inv[i].pc = "fetchMe"
  /\ \E me \in {NoMe, botPos} :
       Apply(i, StartBatch([inv[i] EXCEPT !.botMember = me],
                           ConfigOf(inv[i].thr).removalState), NoEvent)

\* memberTracker.js:417-425 / part_000:511-521: thread.members.remove settled
RemoveResolved(i, ok) ==
  /\ inv[i].pc = "remove"
  /\ Apply(i, Pace(inv[i], AfterRemove(ConfigOf(inv[i].thr).removalState, ok)),
           Event(IF ok THEN "removed" ELSE "removeFailed", inv[i].thr))

RemoveDone(i) == \E ok \in BOOLEAN : RemoveResolved(i, ok)

\* memberTracker.js:428-449 / part_000:524-545: the 200 ms delay elapsed; the
\* loop goes on to the next removal call or to the end of the batch
DelayDone(i) ==
  /\ inv[i].pc = "delay"
  /\ Apply(i, BatchLoop([inv[i] EXCEPT !.currentBatch = Tail(@)],
                        ConfigOf(inv[i].thr).removalState), NoEvent)

Next ==
  \/ \E t \in Threads : checkThreadMembers(t)
  \/ \E i \in Inv : FetchThreadDone(i)
  \/ \E i \in Inv : CountDone(i)
  \/ \E i \in Inv : FetchMembersDone(i)
  \/ \E i \in Inv : BuildStep(i)
  \/ \E i \in Inv : FetchMeDone(i)
  \/ \E i \in Inv : RemoveDone(i)
  \/ \E i \in Inv : DelayDone(i)

Spec == Init /\ [][Next]_vars

(* --------------- batches of two candidates, both versions --------------- *)
BatchInit ==
  /\ impl \in {"role", "cap"}
  /\ trackedThreads = [t \in {"t1"} |-> NewConfig]
  /\ processingThreads = {}
  /\ roleToThread = [r \in {"r1"} |-> "t1"]
  /\ threadToRole = [t \in {"t1"} |-> "r1"]
  /\ ignoredRoles = {"ig"}
  /\ inv = [i \in Inv |-> Idle]
  /\ botPos \in Positions
  /\ meCached \in BOOLEAN
  /\ event = NoEvent
  /\ calls = [t \in Threads |-> <<>>]
  /\ built = [t \in Threads |-> <<>>]
  /\ batches = [t \in Threads |-> 0]
  /\ seen = NoneSeen
  /\ batchSize = 2
  /\ boot = Booted
  /\ evaluation = NoEvaluation
  /\ detached = NoMapping
  /\ tick = NoTick
  /\ cleaner = NoCleaner
  /\ threadNameCache = NoNames
  /\ nameOps = NoNameOps
  /\ urls = NoUrls
  /\ urlOps = NoUrlOps
BatchSpec == BatchInit /\ [][Next]_vars

(* ---- the scenario of the specification's section 8, role-based version ---- *)
\* Thread t1 requires role r1.  Roster: A (1, holds r1), B (2, no r1, role
\* position 3), C (3, left the guild, joined at 100), D (4, no r1, role position
\* 7).  The scenario leaves the other join timestamps open.
ScenarioRosters ==
  {[k \in 1..4 |-> [id |-> k, joinedTimestamp |-> IF k = 3 THEN 100 ELSE f[k]]] :
     f \in [{1, 2, 4} -> {50, 100, 150}]}
ScenarioGuild(id) ==
  CASE id = 1 -> [bot |-> FALSE, roles |-> {"r1"}, position |-> 5]
    [] id = 2 -> [bot |-> FALSE, roles |-> {}, position |-> 3]
    [] id = 3 -> NoMember
    [] id = 4 -> [bot |-> FALSE, roles |-> {}, position |-> 7]

ScenarioInit ==
  /\ impl = "role"
  /\ trackedThreads = [t \in {"t1"} |-> NewConfig]
  /\ processingThreads = {}
  /\ roleToThread = [r \in {"r1"} |-> "t1"]
  /\ threadToRole = [t \in {"t1"} |-> "r1"]
  /\ ignoredRoles = {"ig"}
  /\ inv = [i \in Inv |-> Idle]
  /\ botPos \in {7, 8}
  /\ meCached \in BOOLEAN
  /\ event = NoEvent
  /\ calls = [t \in Threads |-> <<>>]
  /\ built = [t \in Threads |-> <<>>]
  /\ batches = [t \in Threads |-> 0]
  /\ seen = NoneSeen
  /\ batchSize = 2
  /\ boot = Booted
  /\ evaluation = NoEvaluation
  /\ detached = NoMapping
  /\ tick = NoTick
  /\ cleaner = NoCleaner
  /\ threadNameCache = NoNames
  /\ nameOps = NoNameOps
  /\ urls = NoUrls
  /\ urlOps = NoUrlOps
\* every fetch succeeds and returns the scenario's data; a removal call may fail
ScenarioFetchThread(i) == FetchThreadResolved(i, "ok")
ScenarioCount(i) == CountResolved(i, "above")
ScenarioFetchMembers(i) ==
  \E roster \in ScenarioRosters : FetchMembersResolved(i, roster, TRUE)
ScenarioBuild(i) ==
  /\ inv[i].pc = "build"
  /\ BuildResolved(i, ScenarioGuild(Head(inv[i].roster).id))

ScenarioNext ==
  \/ \E t \in Threads : checkThreadMembers(t)
  \/ \E i \in Inv : ScenarioFetchThread(i)
  \/ \E i \in Inv : ScenarioCount(i)
  \/ \E i \in Inv : ScenarioFetchMembers(i)
  \/ \E i \in Inv : ScenarioBuild(i)
  \/ \E i \in Inv : RemoveDone(i)
  \/ \E i \in Inv : DelayDone(i)

ScenarioSpec == ScenarioInit /\ [][ScenarioNext]_vars

(* ------ two tracked threads and the timer tick, role-based version ------ *)
\* t1 requires r1, t2 requires r2.  Rosters differ in size only; a roster
\* entry has left the guild, or holds neither role (role position 0, the
\* bot's own), or holds both.
PairRosters ==
  {[k \in 1..n |-> [id |-> k, joinedTimestamp |-> 0]] : n \in {0, 1, 2}}
PairGuildMembers ==
  {NoMember, [bot |-> FALSE, roles |-> {}, position |-> 0],
   [bot |-> FALSE, roles |-> {"r1", "r2"}, position |-> 0]}

PairInit ==
  /\ impl = "role"
  /\ trackedThreads = [t \in {"t1", "t2"} |-> NewConfig]
  /\ processingThreads = {}
  /\ roleToThread = [r \in {"r1", "r2"} |-> IF r = "r1" THEN "t1" ELSE "t2"]
  /\ threadToRole = [t \in {"t1", "t2"} |-> IF t = "t1" THEN "r1" ELSE "r2"]
  /\ ignoredRoles = {"ig"}
  /\ inv = [i \in Inv |-> Idle]
  /\ botPos = 0
  /\ meCached = TRUE
  /\ event = NoEvent
  /\ calls = [t \in Threads |-> <<>>]
  /\ built = [t \in Threads |-> <<>>]
  /\ batches = [t \in Threads |-> 0]
  /\ seen = NoneSeen
  /\ batchSize = BATCH_SIZE
  /\ boot = Booted
  /\ evaluation = NoEvaluation
  /\ detached = NoMapping
  /\ tick = NoTick
  /\ cleaner = NoCleaner
  /\ threadNameCache = NoNames
  /\ nameOps = NoNameOps
  /\ urls = NoUrls
  /\ urlOps = NoUrlOps
\* faulty variant: the loop of checkAllThreads stops after the first thread
AfterCheckAbort(todo) == <<>>
\* memberTracker.js:99  the for-of loop goes on with the next entry of the Map
AfterCheck(todo) == Tail(todo)

\* memberTracker.js:99-105  checkAllThreads runs from the head of todo up to its
\* next await: it calls checkThreadMembers for the thread, or is through
TickCall(todo, visited, failed) ==
  IF todo = <<>>
  THEN /\ tick' = [pc |-> "done", todo |-> <<>>, slot |-> 0, visited |-> visited,
                   failed |-> failed]
       /\ event' = NoEvent
       /\ seen' = NoneSeen
       /\ UNCHANGED <<trackedThreads, processingThreads, directory, env, startup,
                      inv, hist, detached>>
  ELSE /\ Enter(Head(todo))
       /\ tick' = [pc |-> "wait", todo |-> todo,
                   slot |-> IF GuardHeld(Head(todo)) THEN 0 ELSE FreeSlot,
                   visited |-> visited \cup {Head(todo)}, failed |-> failed]

\* memberTracker.js:83, 97-99  the interval timer fires (or init() makes its
\* initial check): the entries of the Map in insertion order
TickStart ==
  /\ tick.pc \in {"idle", "done"}
  /\ TickCall(<<"t1", "t2">>, {}, {})

\* the promise checkAllThreads awaits is settled: its continuation runs before
\* any other event is handled
TickPending ==
  /\ tick.pc = "wait"
  /\ IF tick.slot \in Inv THEN ~Active(tick.slot) ELSE TRUE

\* memberTracker.js:100-104  the awaited checkThreadMembers returned
TickResume ==
  /\ TickPending
  /\ TickCall(AfterCheck(tick.todo), tick.visited,
              IF event = Event("fetchFailed", Head(tick.todo))
              THEN tick.failed \cup {Head(tick.todo)} ELSE tick.failed)

PairTrigger(t) == ~TickPending /\ checkThreadMembers(t)
PairFetchThread(i) ==
  /\ ~TickPending
  /\ \E res \in {"error", "ok"} : FetchThreadResolved(i, res)
PairCount(i) == ~TickPending /\ CountResolved(i, "above")
PairFetchMembers(i) ==
  /\ ~TickPending
  /\ \E roster \in PairRosters : FetchMembersResolved(i, roster, TRUE)
PairBuild(i) ==
  /\ ~TickPending
  /\ \E gm \in PairGuildMembers : BuildResolved(i, gm)
PairRemove(i) == ~TickPending /\ RemoveDone(i)
PairDelay(i) == ~TickPending /\ DelayDone(i)

PairNext ==
  \/ TickStart
  \/ TickResume
  \/ \E t \in Threads : PairTrigger(t)
  \/ \E i \in Inv : PairFetchThread(i)
  \/ \E i \in Inv : PairCount(i)
  \/ \E i \in Inv : PairFetchMembers(i)
  \/ \E i \in Inv : PairBuild(i)
  \/ \E i \in Inv : PairRemove(i)
  \/ \E i \in Inv : PairDelay(i)

PairSpec == PairInit /\ [][PairNext]_vars

(* ------------------- shutdown(), role-based version ------------------- *)
ShutdownInit ==
  /\ impl = "role"
  /\ trackedThreads = [t \in {"t1"} |-> NewConfig]
  /\ processingThreads = {}
  /\ roleToThread = [r \in {"r1"} |-> "t1"]
  /\ threadToRole = [t \in {"t1"} |-> "r1"]
  /\ ignoredRoles = {"ig"}
  /\ inv = [i \in Inv |-> Idle]
  /\ botPos = 0
  /\ meCached \in BOOLEAN
  /\ event = NoEvent
  /\ calls = [t \in Threads |-> <<>>]
  /\ built = [t \in Threads |-> <<>>]
  /\ batches = [t \in Threads |-> 0]
  /\ seen = NoneSeen
  /\ batchSize = BATCH_SIZE
  /\ boot = Booted
  /\ evaluation = NoEvaluation
  /\ detached = NoMapping
  /\ tick = NoTick
  /\ cleaner = NoCleaner
  /\ threadNameCache = NoNames
  /\ nameOps = NoNameOps
  /\ urls = NoUrls
  /\ urlOps = NoUrlOps
\* memberTracker.js:457-468  shutdown(): the timer is cleared and the four
\* collections are emptied; the invocations that are suspended at an await keep
\* their threadConfig object and go on when the await resolves
shutdown ==
  /\ boot.pc = "ready"
  /\ boot' = [boot EXCEPT !.pc = "shutdown"]
  /\ tick' = NoTick
  /\ detached' = [t \in {inv[i].thr : i \in {j \in Inv : Active(j)}} |-> ConfigOf(t)]
  /\ trackedThreads' = NoMapping
  /\ processingThreads' = {}
  /\ roleToThread' = NoMapping
  /\ threadToRole' = NoMapping
  /\ event' = Event("shutdown", "")
  /\ seen' = NoneSeen
  /\ UNCHANGED <<ignoredRoles, env, evaluation, inv, hist>>

\* the triggers come from the timer and from the running client
ShutdownTrigger(t) == boot.pc = "ready" /\ checkThreadMembers(t)
ShutdownFetchThread(i) == \E res \in {"error", "ok"} : FetchThreadResolved(i, res)
ShutdownCount(i) == CountResolved(i, "above")
ShutdownFetchMembers(i) ==
  \E roster \in PairRosters : FetchMembersResolved(i, roster, TRUE)
ShutdownBuild(i) == \E gm \in PairGuildMembers : BuildResolved(i, gm)

ShutdownNext ==
  \/ shutdown
  \/ \E t \in Threads : ShutdownTrigger(t)
  \/ \E i \in Inv : ShutdownFetchThread(i)
  \/ \E i \in Inv : ShutdownCount(i)
  \/ \E i \in Inv : ShutdownFetchMembers(i)
  \/ \E i \in Inv : ShutdownBuild(i)
  \/ \E i \in Inv : RemoveDone(i)
  \/ \E i \in Inv : DelayDone(i)

ShutdownSpec == ShutdownInit /\ [][ShutdownNext]_vars

(* ---------- a pass under fair scheduling, role-based version ---------- *)
\* A fetch may fail or succeed each time it is made; a successful roster fetch
\* may find the thread empty.
LiveTrigger == checkThreadMembers("t1")
LiveFetchThreadFailed(i) == FetchThreadResolved(i, "error")
LiveFetchThread(i) == FetchThreadResolved(i, "ok")
LiveCount(i) == CountResolved(i, "above")
LiveFetchMembersFailed(i) == FetchMembersRejected(i, TRUE)
LiveFetchMembers(i) ==
  \E roster \in PairRosters : FetchMembersResolved(i, roster, TRUE)
LiveBuild(i) == \E gm \in PairGuildMembers : BuildResolved(i, gm)

LiveNext ==
  \/ LiveTrigger
  \/ \E i \in Inv : LiveFetchThreadFailed(i)
  \/ \E i \in Inv : LiveFetchThread(i)
  \/ \E i \in Inv : LiveCount(i)
  \/ \E i \in Inv : LiveFetchMembersFailed(i)
  \/ \E i \in Inv : LiveFetchMembers(i)
  \/ \E i \in Inv : LiveBuild(i)
  \/ \E i \in Inv : RemoveDone(i)
  \/ \E i \in Inv : DelayDone(i)

\* The timer keeps firing (setInterval, memberTracker.js:83), every await is
\* settled in the end, and a fetch that is made again and again succeeds at
\* some point.
LiveSpec ==
  /\ ShutdownInit
  /\ [][LiveNext]_vars
  /\ WF_vars(LiveTrigger)
  /\ SF_vars(\E i \in Inv : LiveFetchThread(i))
  /\ SF_vars(\E i \in Inv : LiveFetchMembers(i))
  /\ WF_vars(\E i \in Inv : LiveCount(i))
  /\ WF_vars(\E i \in Inv : LiveBuild(i))
  /\ WF_vars(\E i \in Inv : RemoveDone(i))
  /\ WF_vars(\E i \in Inv : DelayDone(i))

(* ------ a removalState with an invalid remainingMembers, role-based ------ *)
\* trackedThreads is a public field of the tracker; the reconciler is given a
\* threadConfig whose removalState lacks a remainingMembers array and has the
\* counters of a pass that was under way.
InvalidStates ==
  {[exists |-> TRUE, processedCount |-> p, totalCount |-> 2,
    remainingMembers |-> <<>>, isArray |-> FALSE] : p \in {0, 1}}

InvalidInit ==
  /\ impl = "role"
  /\ \E st \in InvalidStates :
        trackedThreads = [t \in {"t1"} |-> [lastCheck |-> Stamped, removalState |-> st]]
  /\ processingThreads = {}
  /\ roleToThread = [r \in {"r1"} |-> "t1"]
  /\ threadToRole = [t \in {"t1"} |-> "r1"]
  /\ ignoredRoles = {"ig"}
  /\ inv = [i \in Inv |-> Idle]
  /\ botPos = 0
  /\ meCached \in BOOLEAN
  /\ event = NoEvent
  /\ calls = [t \in Threads |-> <<>>]
  /\ built = [t \in Threads |-> <<>>]
  /\ batches = [t \in Threads |-> 0]
  /\ seen = NoneSeen
  /\ batchSize = BATCH_SIZE
  /\ boot = Booted
  /\ evaluation = NoEvaluation
  /\ detached = NoMapping
  /\ tick = NoTick
  /\ cleaner = NoCleaner
  /\ threadNameCache = NoNames
  /\ nameOps = NoNameOps
  /\ urls = NoUrls
  /\ urlOps = NoUrlOps
InvalidSpec == InvalidInit /\ [][LiveNext]_vars

(* -------- a pass under fair scheduling, capacity-based version -------- *)
CapInit ==
  /\ impl = "cap"
  /\ trackedThreads = [t \in {"t1"} |-> NewConfig]
  /\ processingThreads = {}
  /\ roleToThread = [r \in {"r1"} |-> "t1"]
  /\ threadToRole = [t \in {"t1"} |-> "r1"]
  /\ ignoredRoles = {"ig"}
  /\ inv = [i \in Inv |-> Idle]
  /\ botPos = 0
  /\ meCached \in BOOLEAN
  /\ event = NoEvent
  /\ calls = [t \in Threads |-> <<>>]
  /\ built = [t \in Threads |-> <<>>]
  /\ batches = [t \in Threads |-> 0]
  /\ seen = NoneSeen
  /\ batchSize = BATCH_SIZE
  /\ boot = Booted
  /\ evaluation = NoEvaluation
  /\ detached = NoMapping
  /\ tick = NoTick
  /\ cleaner = NoCleaner
  /\ threadNameCache = NoNames
  /\ nameOps = NoNameOps
  /\ urls = NoUrls
  /\ urlOps = NoUrlOps
\* part_000:145-189: the members.fetch() of the count succeeded
CapCount(i) == \E res \in {"within", "above"} : CountResolved(i, res)
\* part_000:230: the members.fetch() of removeExcessMembers succeeded
CapFetchMembers(i) ==
  \E roster \in PairRosters : FetchMembersResolved(i, roster, TRUE)

CapNext ==
  \/ LiveTrigger
  \/ \E i \in Inv : LiveFetchThreadFailed(i)
  \/ \E i \in Inv : LiveFetchThread(i)
  \/ \E i \in Inv : CapCount(i)
  \/ \E i \in Inv : CapFetchMembers(i)
  \/ \E i \in Inv : LiveBuild(i)
  \/ \E i \in Inv : FetchMeDone(i)
  \/ \E i \in Inv : RemoveDone(i)
  \/ \E i \in Inv : DelayDone(i)

\* The timer keeps firing (setInterval, part_000:63), every await is settled
\* in the end, every roster fetch succeeds, and a thread lookup that is made
\* again and again succeeds at some point.
CapLiveSpec ==
  /\ CapInit
  /\ [][CapNext]_vars
  /\ WF_vars(LiveTrigger)
  /\ SF_vars(\E i \in Inv : LiveFetchThread(i))
  /\ WF_vars(\E i \in Inv : CapCount(i))
  /\ WF_vars(\E i \in Inv : CapFetchMembers(i))
  /\ WF_vars(\E i \in Inv : LiveBuild(i))
  /\ WF_vars(\E i \in Inv : FetchMeDone(i))
  /\ WF_vars(\E i \in Inv : RemoveDone(i))
  /\ WF_vars(\E i \in Inv : DelayDone(i))

(* ------------- init() and shouldMemberBeInThread, role-based ------------- *)
\* The environment of init(): tier n is the pair THREAD_n_ID, ROLE_n_ID, in the
\* sorted order of the variable names; "" is a variable that is empty or unset.
TierThreads == {"", "t1", "t2"}
TierRoles == {"", "r1", "r2"}
TierConfigs ==
  UNION {[1..n -> [thread : TierThreads, role : TierRoles]] : n \in 0..MaxTiers}

\* faulty variant: init() succeeds without a tracked thread
AfterTiersAlwaysReady(tracked) == "ready"
\* memberTracker.js:76-78, 88-89
AfterTiers(tracked) == IF DOMAIN tracked = {} THEN "failed" ELSE "ready"

\* the state the constructor leaves (memberTracker.js:5-14), with the
\* environment init() will read
InitInit ==
  /\ impl = "role"
  /\ trackedThreads = NoMapping
  /\ processingThreads = {}
  /\ roleToThread = NoMapping
  /\ threadToRole = NoMapping
  /\ ignoredRoles = {}
  /\ inv = [i \in Inv |-> Idle]
  /\ botPos = 0
  /\ meCached = TRUE
  /\ event = NoEvent
  /\ calls = [t \in Threads |-> <<>>]
  /\ built = [t \in Threads |-> <<>>]
  /\ batches = [t \in Threads |-> 0]
  /\ seen = NoneSeen
  /\ batchSize = BATCH_SIZE
  /\ \E c \in TierConfigs :
        boot = [pc |-> "init", config |-> c, tiers |-> <<>>, skipped |-> {}]
  /\ evaluation = NoEvaluation
  /\ detached = NoMapping
  /\ tick = NoTick
  /\ cleaner = NoCleaner
  /\ threadNameCache = NoNames
  /\ nameOps = NoNameOps
  /\ urls = NoUrls
  /\ urlOps = NoUrlOps
\* memberTracker.js:16-34  IGNORED_ROLES parsed, THREAD_n_ID variables listed
InitStart(ignored) ==
  /\ boot.pc = "init"
  /\ ignoredRoles' = ignored
  /\ boot' = [boot EXCEPT !.pc = IF boot.config = <<>> THEN "failed" ELSE "tiers",
                          !.tiers = [k \in 1..Len(boot.config) |->
                                       [index |-> k, thread |-> boot.config[k].thread,
                                        role |-> boot.config[k].role]]]
  /\ UNCHANGED <<services, impl, trackedThreads, processingThreads, roleToThread,
                 threadToRole, inv, botPos, meCached, batchSize, evaluation,
                 event, hist, seen, detached, tick>>

\* memberTracker.js:37-74  one iteration of the loop over the tiers; fetched is
\* what client.channels.fetch(threadId) gives
Skip(why) ==
  /\ boot' = [boot EXCEPT !.tiers = Tail(boot.tiers),
                          !.skipped = @ \cup {[index |-> Head(boot.tiers).index,
                                               why |-> why]}]
  /\ UNCHANGED <<trackedThreads, roleToThread, threadToRole>>
InitTier(fetched) ==
  /\ boot.pc = "tiers"
  /\ boot.tiers # <<>>
  /\ LET tier == Head(boot.tiers) IN
       IF tier.thread = "" THEN Skip("noThread")
       ELSE IF tier.role = "" THEN Skip("noRole")
       ELSE IF fetched = "error" THEN Skip("error")
       ELSE IF fetched = "notThread" THEN Skip("invalid")
       ELSE /\ trackedThreads' = MapSet(trackedThreads, tier.thread, NewConfig)
            /\ roleToThread' = MapSet(roleToThread, tier.role, tier.thread)
            /\ threadToRole' = MapSet(threadToRole, tier.thread, tier.role)
            /\ boot' = [boot EXCEPT !.tiers = Tail(boot.tiers)]
  /\ UNCHANGED <<services, impl, processingThreads, ignoredRoles, inv, botPos, meCached,
                 batchSize, evaluation, event, hist, seen, detached, tick>>

\* memberTracker.js:76-94  after the loop
InitFinish ==
  /\ boot.pc = "tiers"
  /\ boot.tiers = <<>>
  /\ boot' = [boot EXCEPT !.pc = AfterTiers(trackedThreads)]
  /\ UNCHANGED <<services, impl, trackedThreads, processingThreads, directory, inv, botPos,
                 meCached, batchSize, evaluation, event, hist, seen, detached, tick>>

\* memberTracker.js:205-225  a call of shouldMemberBeInThread once init() is over
Evaluate(roles, threadId) ==
  /\ boot.pc = "ready"
  /\ evaluation' = [roles |-> roles, threadId |-> threadId,
                     result |-> shouldMemberBeInThread(roles, threadId),
                     made |-> TRUE]
  /\ UNCHANGED <<services, impl, trackedThreads, processingThreads, directory, inv, botPos,
                 meCached, batchSize, boot, event, hist, seen, detached, tick>>

InitNext ==
  \/ \E ignored \in SUBSET {"ig"} : InitStart(ignored)
  \/ \E fetched \in {"thread", "notThread", "error"} : InitTier(fetched)
  \/ InitFinish
  \/ \E roles \in SUBSET {"r1", "r2", "ig"}, threadId \in Threads :
        Evaluate(roles, threadId)

InitSpec == InitInit /\ [][InitNext]_vars
(* ---------------------- ThreadCleaner (logger.js) ---------------------- *)
tracker == <<impl, trackedThreads, processingThreads, roleToThread, threadToRole,
             ignoredRoles, inv, botPos, meCached, batchSize, boot, evaluation,
             event, calls, built, batches, seen, detached, tick>>
\* what the ThreadCleaner leaves alone
notCleaner == <<tracker, threadNameCache, nameOps, urls, urlOps>>

\* logger.js:259-270  getThreadAndRoleMappings: threadIds and threadToRole
ThreadIdsOf(tiers) == [k \in 1..Len(tiers) |-> tiers[k].thread]
ThreadToRoleHas(tiers, threadId) == \E k \in 1..Len(tiers) : tiers[k].thread = threadId

\* logger.js:273-281  findHighestRole: the highest n whose ROLE_n_ID the member
\* has, -1 when there is none
RECURSIVE HighestFrom(_, _, _)
HighestFrom(memberRoles, tiers, n) ==
  IF n < 0 THEN -1
  ELSE IF n + 1 <= Len(tiers) /\ tiers[n + 1].role \in memberRoles THEN n
  ELSE HighestFrom(memberRoles, tiers, n - 1)
findHighestRole(memberRoles, tiers) == HighestFrom(memberRoles, tiers, Len(tiers) - 1)

\* logger.js:283-300
memberHasCorrectRoleForThread(member, threadId, tiers, ignored) ==
  IF member.roles \cap ignored # {} THEN TRUE
  ELSE LET highestRoleIndex == findHighestRole(member.roles, tiers)
       IN IF highestRoleIndex = -1 THEN FALSE
          ELSE threadId = tiers[highestRoleIndex + 1].thread

\* faulty variant: the flag is not looked at
AlreadyRunningNever(c) == FALSE
\* logger.js:303 and 396: if (this.isRunning)
AlreadyRunning(c) == c.isRunning

\* faulty variant: the run ends and leaves the flag set
FinishKeepsFlag(c, r) == [c EXCEPT !.run[r] = NoRun, !.last = "finished"]
\* logger.js:386-388 and 475-477 (finally), 318, 411, 423, 430: the run is over
Finish(c, r) == [c EXCEPT !.isRunning = FALSE, !.run[r] = NoRun, !.last = "finished"]

\* logger.js:326-382: performCleanup goes on to the next threadId of its loop;
\* cleanSpecificThread has the one thread only (logger.js:419-471)
NextThread(c, r) ==
  IF c.run[r].kind = "all" /\ Len(c.run[r].threadIds) > 1
  THEN [c EXCEPT !.run[r].threadIds = Tail(@), !.run[r].members = <<>>,
                 !.run[r].pc = "fetchThread", !.last = "nextThread"]
  ELSE Finish(c, r)

\* logger.js:345-372 / 437-464: the loop over the thread's members goes on
NextMember(c, r) ==
  IF Len(c.run[r].members) > 1
  THEN [c EXCEPT !.run[r].members = Tail(@), !.run[r].pc = "fetchMember",
                 !.last = "nextMember"]
  ELSE NextThread(c, r)

FreeRun == CHOOSE r \in Runs : cleaner.run[r].pc = "idle" /\
                               \A q \in Runs : cleaner.run[q].pc = "idle" => r <= q

\* A call of performCleanup or cleanSpecificThread up to its first await
Begin(kind, threadIds, configured) ==
  /\ \/ AlreadyRunning(cleaner) /\ cleaner' = [cleaner EXCEPT !.last = "skipped"]
     \/ /\ ~AlreadyRunning(cleaner)
        /\ ~configured
        /\ cleaner' = [cleaner EXCEPT !.isRunning = FALSE, !.last = "notConfigured"]
     \/ /\ ~AlreadyRunning(cleaner)
        /\ configured
        /\ {r \in Runs : cleaner.run[r].pc = "idle"} # {}
        /\ cleaner' = [cleaner EXCEPT
                         !.isRunning = TRUE,
                         !.run[FreeRun] = [NoRun EXCEPT !.pc = "fetchThread",
                                                        !.kind = kind,
                                                        !.threadIds = threadIds],
                         !.last = "started"]
  /\ UNCHANGED notCleaner

\* logger.js:302-324 (the cron schedule of 233-236, or runNow)
performCleanup ==
  Begin("all", ThreadIdsOf(cleaner.tiers), ThreadIdsOf(cleaner.tiers) # <<>>)

\* logger.js:395-417
cleanSpecificThread(threadId) ==
  Begin("one", <<threadId>>, ThreadToRoleHas(cleaner.tiers, threadId))

\* logger.js:328-341 / 420-432: client.channels.fetch settled
CleanFetchThread(r) ==
  /\ cleaner.run[r].pc = "fetchThread"
  /\ \E res \in {"throw", "null", "notThread", "ok"} :
        cleaner' = IF res = "ok"
                   THEN [cleaner EXCEPT !.run[r].pc = "fetchMembers", !.last = "thread"]
                   ELSE NextThread(cleaner, r)
  /\ UNCHANGED notCleaner

CleanRosters == {<<>>, <<BOT_ID>>, <<1>>, <<BOT_ID, 1>>, <<1, 2>>}

\* logger.js:344-350 / 435-442: thread.members.fetch settled; the bot's own
\* entry is passed over
CleanFetchMembers(r) ==
  /\ cleaner.run[r].pc = "fetchMembers"
  /\ \/ cleaner' = NextThread(cleaner, r)                         \* rejected
     \/ \E roster \in CleanRosters :
          LET members == SelectSeq(roster, LAMBDA m : m # BOT_ID)
          IN cleaner' = IF members = <<>> THEN NextThread(cleaner, r)
                        ELSE [cleaner EXCEPT !.run[r].members = members,
                                             !.run[r].pc = "fetchMember",
                                             !.last = "members"]
  /\ UNCHANGED notCleaner

CleanGuildMembers ==
  {[present |-> FALSE, roles |-> {}]} \cup
  {[present |-> TRUE, roles |-> R] : R \in {{}, {"r1"}, {"r2"}, {"ig"}, {"r1", "r2"}}}

\* logger.js:356-362 / 447-454: guild.members.fetch(memberId).catch(() => null)
CleanFetchMember(r) ==
  /\ cleaner.run[r].pc = "fetchMember"
  /\ \E guildMember \in CleanGuildMembers :
        cleaner' =
          IF \/ ~guildMember.present
             \/ ~memberHasCorrectRoleForThread(guildMember, Head(cleaner.run[r].threadIds),
                                               cleaner.tiers, {"ig"})
          THEN [cleaner EXCEPT !.run[r].pc = "remove", !.last = "removing"]
          ELSE NextMember(cleaner, r)
  /\ UNCHANGED notCleaner

\* logger.js:363-371 / 455-463: thread.members.remove settled (a rejection is
\* caught and logged)
CleanRemoveDone(r) ==
  /\ cleaner.run[r].pc = "remove"
  /\ \E ok \in BOOLEAN :
        cleaner' = NextMember([cleaner EXCEPT !.run[r].removed =
                                                 IF ok THEN @ + 1 ELSE @], r)
  /\ UNCHANGED notCleaner

CleanerTiers ==
  {<<>>, <<[role |-> "r1", thread |-> "t1"], [role |-> "r2", thread |-> "t2"]>>}

CleanerInit ==
  /\ impl = "role"
  /\ trackedThreads = [t \in {"t1"} |-> NewConfig]
  /\ processingThreads = {}
  /\ roleToThread = [r \in {"r1"} |-> "t1"]
  /\ threadToRole = [t \in {"t1"} |-> "r1"]
  /\ ignoredRoles = {"ig"}
  /\ inv = [i \in Inv |-> Idle]
  /\ botPos = 0
  /\ meCached = TRUE
  /\ event = NoEvent
  /\ calls = [t \in Threads |-> <<>>]
  /\ built = [t \in Threads |-> <<>>]
  /\ batches = [t \in Threads |-> 0]
  /\ seen = NoneSeen
  /\ batchSize = BATCH_SIZE
  /\ boot = Booted
  /\ evaluation = NoEvaluation
  /\ detached = NoMapping
  /\ tick = NoTick
  /\ \E tiers \in CleanerTiers : cleaner = [NoCleaner EXCEPT !.tiers = tiers]
  /\ threadNameCache = NoNames
  /\ nameOps = NoNameOps
  /\ urls = NoUrls
  /\ urlOps = NoUrlOps

CleanerNext ==
  \/ performCleanup
  \/ \E threadId \in {"t1", "t2", "t9"} : cleanSpecificThread(threadId)
  \/ \E r \in Runs : CleanFetchThread(r)
  \/ \E r \in Runs : CleanFetchMembers(r)
  \/ \E r \in Runs : CleanFetchMember(r)
  \/ \E r \in Runs : CleanRemoveDone(r)

CleanerSpec == CleanerInit /\ [][CleanerNext]_vars

(* ------------------ the thread-name cache (part_001) ------------------ *)
notNames == <<tracker, cleaner, urls, urlOps>>

\* part_001:225  cacheEntry.pendingOps++
Hit(entry) == [entry EXCEPT !.pendingOps = @ + 1]

\* part_001:243-247  threadNameCache.set(threadId, {..., pendingOps: 1})
Stored == [cached |-> TRUE, pendingOps |-> 1]

\* part_001:228-233 / 251-256  done(): the entry of the thread, if there is
\* one, is decremented
Released(cache, threadId) ==
  IF cache[threadId].cached
  THEN [cache EXCEPT ![threadId].pendingOps = @ - 1]
  ELSE cache

\* part_001:222-237, called at 723: the cache has the thread (a handle is
\* returned at once) or client.channels.fetch is awaited
getThreadName(o, threadId) ==
  /\ nameOps[o].pc = "idle"
  /\ IF threadNameCache[threadId].cached
     THEN /\ threadNameCache' = [threadNameCache EXCEPT ![threadId] = Hit(@)]
          /\ nameOps' = [nameOps EXCEPT ![o] = [pc |-> "holding", thr |-> threadId,
                                                counted |-> TRUE]]
     ELSE /\ nameOps' = [nameOps EXCEPT ![o] = [pc |-> "fetch", thr |-> threadId,
                                                counted |-> FALSE]]
          /\ UNCHANGED threadNameCache
  /\ UNCHANGED notNames

\* part_001:238-261: client.channels.fetch settled
NameFetched(o, res) ==
  /\ nameOps[o].pc = "fetch"
  /\ IF res = "ok"
     THEN /\ threadNameCache' = [threadNameCache EXCEPT ![nameOps[o].thr] = Stored]
          /\ nameOps' = [nameOps EXCEPT ![o].pc = "holding", ![o].counted = TRUE]
     ELSE /\ nameOps' = [nameOps EXCEPT ![o].pc = "holding"]
          /\ UNCHANGED threadNameCache
  /\ UNCHANGED notNames

NameFetchDone(o) == \E res \in {"ok", "null", "throw"} : NameFetched(o, res)

\* part_001:758-760  finally { threadNameData.done(); }
done(o) ==
  /\ nameOps[o].pc = "holding"
  /\ threadNameCache' = IF nameOps[o].counted
                        THEN Released(threadNameCache, nameOps[o].thr)
                        ELSE threadNameCache
  /\ nameOps' = [nameOps EXCEPT ![o] = NoOp]
  /\ UNCHANGED notNames

\* part_001:644-649  the cleanup timer: an entry whose TTL has elapsed and whose
\* pendingOps is 0 is deleted
CacheCleanup(elapsed) ==
  /\ threadNameCache' =
       [t \in NameThreads |->
          IF threadNameCache[t].cached /\ t \in elapsed /\ threadNameCache[t].pendingOps = 0
          THEN NoEntry ELSE threadNameCache[t]]
  /\ UNCHANGED <<nameOps, notNames>>

NamesInit ==
  /\ impl = "role"
  /\ trackedThreads = [t \in {"t1"} |-> NewConfig]
  /\ processingThreads = {}
  /\ roleToThread = [r \in {"r1"} |-> "t1"]
  /\ threadToRole = [t \in {"t1"} |-> "r1"]
  /\ ignoredRoles = {"ig"}
  /\ inv = [i \in Inv |-> Idle]
  /\ botPos = 0
  /\ meCached = TRUE
  /\ event = NoEvent
  /\ calls = [t \in Threads |-> <<>>]
  /\ built = [t \in Threads |-> <<>>]
  /\ batches = [t \in Threads |-> 0]
  /\ seen = NoneSeen
  /\ batchSize = BATCH_SIZE
  /\ boot = Booted
  /\ evaluation = NoEvaluation
  /\ detached = NoMapping
  /\ tick = NoTick
  /\ cleaner = NoCleaner
  /\ threadNameCache = NoNames
  /\ nameOps = NoNameOps
  /\ urls = NoUrls
  /\ urlOps = NoUrlOps

NamesNext ==
  \/ \E o \in Ops, threadId \in NameThreads : getThreadName(o, threadId)
  \/ \E o \in Ops : NameFetchDone(o)
  \/ \E o \in Ops : done(o)
  \/ \E elapsed \in SUBSET NameThreads : CacheCleanup(elapsed)

NamesSpec == NamesInit /\ [][NamesNext]_vars

(* ------------- the URL store and handleUrlMessage ------------- *)
notUrls == <<tracker, cleaner, threadNameCache, nameOps>>

\* String.prototype.trim
Trim(url) == [url EXCEPT !.pad = FALSE]
Url(text) == [text |-> text, pad |-> FALSE]
Padded(text) == [text |-> text, pad |-> TRUE]

\* the Map's channels in the order of their insertion
ChannelOrder == <<"c1", "c2">>

Has(entries, url) == \E k \in 1..Len(entries) : Trim(entries[k].url) = Trim(url)

\* memberTracker.js:510-517
isDuplicateUrl(store, url) == \E c \in Channels : Has(store[c], url)

\* memberTracker.js:519-539  findUrlHistory: the first entry of the first
\* channel that has the url
findUrlHistory(store, url) ==
  IF ~isDuplicateUrl(store, url) THEN NoFind
  ELSE LET n == CHOOSE n \in 1..Len(ChannelOrder) :
                   /\ Has(store[ChannelOrder[n]], url)
                   /\ \A m \in 1..(n - 1) : ~Has(store[ChannelOrder[m]], url)
           entries == store[ChannelOrder[n]]
           k == CHOOSE k \in 1..Len(entries) :
                   /\ Trim(entries[k].url) = Trim(url)
                   /\ \A j \in 1..(k - 1) : Trim(entries[j].url) # Trim(url)
       IN [found |-> TRUE, channelId |-> ChannelOrder[n],
           messageId |-> entries[k].messageId]

\* Array.prototype.sort((a, b) => a.timestamp - b.timestamp), which is stable
RECURSIVE SortByTimestamp(_)
SortByTimestamp(entries) ==
  IF entries = <<>> THEN <<>>
  ELSE LET n == Len(entries)
           sorted == SortByTimestamp(SubSeq(entries, 1, n - 1))
           e == entries[n]
           before == SelectSeq(sorted, LAMBDA x : x.timestamp <= e.timestamp)
           after == SelectSeq(sorted, LAMBDA x : x.timestamp > e.timestamp)
       IN before \o <<e>> \o after

\* memberTracker.js:551-571: a new url is pushed unless the array has the
\* same url with the same messageId
RECURSIVE PushAll(_, _)
PushAll(updatedUrls, newUrls) ==
  IF newUrls = <<>> THEN updatedUrls
  ELSE LET newUrl == Head(newUrls)
           isDuplicate == \E k \in 1..Len(updatedUrls) :
                             /\ updatedUrls[k].messageId = newUrl.messageId
                             /\ Trim(updatedUrls[k].url) = Trim(newUrl.url)
       IN PushAll(IF isDuplicate THEN updatedUrls
                  ELSE Append(updatedUrls, [newUrl EXCEPT !.url = Trim(@)]),
                  Tail(newUrls))

\* memberTracker.js:541-581  saveUrls up to its await of fs.writeFile
saveUrls(store, channelId, newUrls) ==
  LET updatedUrls == PushAll(store[channelId], newUrls)
  IN IF Len(updatedUrls) > Len(store[channelId])
     THEN [store EXCEPT ![channelId] = SortByTimestamp(updatedUrls)]
     ELSE store

\* memberTracker.js:629-633  deleteUrl up to its await: the first entry with
\* the url is spliced out of the first channel that has one
deleteUrl(store, url) ==
  LET f == findUrlHistory(store, url)
  IN IF ~f.found THEN store
     ELSE [store EXCEPT ![f.channelId] =
             SelectSeq(@, LAMBDA e : ~(Trim(e.url) = Trim(url) /\ e.messageId = f.messageId))]

\* urltracker.js:126-128 and 326-329: the loop takes the next url and awaits
\* findUrlHistory for it; after the last url the collected urls are saved
Proceed(h, op, store) ==
  IF op.urls # <<>>
  THEN [op |-> [op EXCEPT !.pc = "find",
                          !.existing = findUrlHistory(store, Head(op.urls))],
        urls |-> store]
  ELSE IF op.urlsToStore # <<>>
  THEN [op |-> [op EXCEPT !.pc = "save"],
        urls |-> saveUrls(store, op.channel,
                          [k \in 1..Len(op.urlsToStore) |->
                             [url |-> op.urlsToStore[k], messageId |-> h,
                              timestamp |-> h]])]
  ELSE [op |-> [op EXCEPT !.pc = "done"], urls |-> store]

Settle(h, r) ==
  /\ urlOps' = [urlOps EXCEPT ![h] = r.op]
  /\ urls' = r.urls
  /\ UNCHANGED notUrls

MessageUrls == {<<Url("u")>>, <<Url("x")>>, <<Url("u"), Url("x")>>}

\* urltracker.js:85-128  handleUrlMessage(message, urls) up to its first await
\* (process.env.BOTANIX_TWITTER is not set)
handleUrlMessage(h, channel, messageUrls) ==
  /\ urlOps[h].pc = "idle"
  /\ \A g \in Handlers : g < h => urlOps[g].pc # "idle"
  /\ Settle(h, Proceed(h, [NoHandler EXCEPT !.channel = channel,
                                            !.urls = messageUrls], urls))

\* urltracker.js:128-168, 310-323: findUrlHistory has answered.  A url that was
\* not found is collected; for one that was found the author is told (another
\* author, or another thread) or the original message is fetched
UrlChecked(h, sameAuthor) ==
  /\ urlOps[h].pc = "find"
  /\ LET op == urlOps[h] IN
     IF ~op.existing.found
     THEN Settle(h, Proceed(h, [op EXCEPT !.urls = Tail(@),
                                          !.urlsToStore = Append(@, Head(op.urls))],
                            urls))
     ELSE Settle(h, [op |-> [op EXCEPT !.pc = IF sameAuthor /\
                                                 op.existing.channelId = op.channel
                                              THEN "original" ELSE "notify"],
                     urls |-> urls])

\* urltracker.js:201-246: channel.messages.fetch(existingUrl.messageId) settled;
\* when the original is gone and young, deleteUrl is called
OriginalFetched(h, res) ==
  /\ urlOps[h].pc = "original"
  /\ IF res = "goneYoung"
     THEN Settle(h, [op |-> [urlOps[h] EXCEPT !.pc = "deleting"],
                     urls |-> deleteUrl(urls, Head(urlOps[h].urls))])
     ELSE Settle(h, [op |-> [urlOps[h] EXCEPT !.pc = "notify"], urls |-> urls])

\* urltracker.js:246-271: deleteUrl and the log message are through; the url is
\* collected as a new one
UrlDeleted(h) ==
  /\ urlOps[h].pc = "deleting"
  /\ Settle(h, Proceed(h, [urlOps[h] EXCEPT !.urls = Tail(@),
                                            !.urlsToStore = Append(@, Head(urlOps[h].urls))],
                       urls))

\* urltracker.js:147-162 and the like: reply, reaction and log are through
Notified(h) ==
  /\ urlOps[h].pc = "notify"
  /\ Settle(h, Proceed(h, [urlOps[h] EXCEPT !.urls = Tail(@)], urls))

\* urltracker.js:327-331 / memberTracker.js:578: fs.writeFile settled
UrlsSaved(h) ==
  /\ urlOps[h].pc = "save"
  /\ Settle(h, [op |-> [urlOps[h] EXCEPT !.pc = "done"], urls |-> urls])

\* memberTracker.js:593-621  addUrl up to the await of fs.writeFile in saveUrls
addUrl(url, channelId, messageId) ==
  /\ urls' = IF isDuplicateUrl(urls, Trim(url)) THEN urls
             ELSE saveUrls(urls, channelId,
                           <<[url |-> Trim(url), messageId |-> messageId,
                              timestamp |-> MaxHandlers + 1]>>)
  /\ UNCHANGED <<urlOps, notUrls>>

\* memberTracker.js:483-499  init() has read the file: it was not there, or it
\* holds a url of an earlier message
LoadedUrls ==
  {NoUrls,
   [NoUrls EXCEPT !["c1"] = <<[url |-> Url("x"), messageId |-> 0, timestamp |-> 0]>>]}

UrlInit ==
  /\ impl = "role"
  /\ trackedThreads = [t \in {"t1"} |-> NewConfig]
  /\ processingThreads = {}
  /\ roleToThread = [r \in {"r1"} |-> "t1"]
  /\ threadToRole = [t \in {"t1"} |-> "r1"]
  /\ ignoredRoles = {"ig"}
  /\ inv = [i \in Inv |-> Idle]
  /\ botPos = 0
  /\ meCached = TRUE
  /\ event = NoEvent
  /\ calls = [t \in Threads |-> <<>>]
  /\ built = [t \in Threads |-> <<>>]
  /\ batches = [t \in Threads |-> 0]
  /\ seen = NoneSeen
  /\ batchSize = BATCH_SIZE
  /\ boot = Booted
  /\ evaluation = NoEvaluation
  /\ detached = NoMapping
  /\ tick = NoTick
  /\ cleaner = NoCleaner
  /\ threadNameCache = NoNames
  /\ nameOps = NoNameOps
  /\ urls \in LoadedUrls
  /\ urlOps = NoUrlOps

UrlNext ==
  \/ \E h \in Handlers, channel \in Channels, messageUrls \in MessageUrls :
        handleUrlMessage(h, channel, messageUrls)
  \/ \E h \in Handlers, sameAuthor \in BOOLEAN : UrlChecked(h, sameAuthor)
  \/ \E h \in Handlers, res \in {"exists", "goneOld", "goneYoung"} :
        OriginalFetched(h, res)
  \/ \E h \in Handlers : UrlDeleted(h)
  \/ \E h \in Handlers : Notified(h)
  \/ \E h \in Handlers : UrlsSaved(h)
  \/ \E url \in {Url("u"), Padded("u")}, channelId \in Channels :
        addUrl(url, channelId, MaxHandlers + 1)

UrlSpec == UrlInit /\ [][UrlNext]_vars

(* ------------------------------- claims -------------------------------- *)
ActiveFor(t) == {i \in Inv : Active(i) /\ inv[i].thr = t}
StateOf(t) == trackedThreads[t].removalState

\* C1: for every thread, at most one invocation of the entry point is past the
\* guard check and has not returned, whatever the interleaving of triggers with
\* the awaits of the running pass.
C1_AtMostOneActivePass == \A t \in Threads : Cardinality(ActiveFor(t)) <= 1

\* C1 witness: a pass is suspended in its pacing delay and a second trigger for
\* the same thread has just been turned away.
C1_Witness ==
  /\ event = Event("skipped", "t1")
  /\ \E i \in Inv : inv[i].pc = "delay" /\ inv[i].thr = "t1"

\* C2: a trigger that arrives while the thread's guard is held is a no-op: the
\* step changes no removalState, lastCheck, guard, invocation or removal call;
\* while the guard is held no idle invocation becomes active for the thread, and
\* none is active for it when the holder releases the guard (nothing is queued).
C2_TriggerWhileHeldIsNoOp ==
  [][\A t \in Threads :
       t \in processingThreads =>
         /\ \A i \in Inv :
              inv[i].pc = "idle" => (inv'[i].pc = "idle" \/ inv'[i].thr # t)
         /\ event' = Event("skipped", t) =>
              /\ trackedThreads' = trackedThreads
              /\ processingThreads' = processingThreads
              /\ inv' = inv
              /\ hist' = hist
         /\ t \notin processingThreads' =>
              \A i \in Inv : inv'[i].pc = "idle" \/ inv'[i].thr # t]_vars

\* C2 witness: the trigger was skipped while the holder had a removal call
\* outstanding.
C2_Witness ==
  /\ event = Event("skipped", "t1")
  /\ "t1" \in processingThreads
  /\ \E i \in Inv : inv[i].pc = "remove" /\ inv[i].thr = "t1"

\* C3: every invocation that took the guard has released it when it returns,
\* on every exit path: whenever no invocation is active for a thread, the
\* thread is not in processingThreads (so the next trigger is not skipped).
C3_GuardFreeWhenNoInvocation ==
  \A t \in Threads : ActiveFor(t) = {} => t \notin processingThreads

\* C3 witness: the continuation branch returned (a batch is persisted, lastCheck
\* is stamped) and the guard is free again.
C3_Witness ==
  /\ ActiveFor("t1") = {}
  /\ StateOf("t1").exists
  /\ trackedThreads["t1"].lastCheck = Stamped
  /\ batches["t1"] = 1
  /\ processingThreads = {}
\* the candidate of the removal call that invocation i is awaiting
Called(i) == Head(inv[i].currentBatch)
HasAuthority(c) == c.highestRolePosition # NoPos

\* C4 (as claimed): no removal call is outstanding for a candidate whose
\* authority-level is greater than or equal to the bot's.
C4_NoRemovalAtOrAboveAuthority ==
  \A i \in Inv : inv[i].pc = "remove" =>
     ~(HasAuthority(Called(i)) /\ Called(i).highestRolePosition >= botPos)

\* C4 (amended): whenever the invocation determined the bot's member record, no
\* removal call is outstanding for a candidate whose authority-level is greater
\* than or equal to the bot's.
C4_NoRemovalAtOrAboveKnownAuthority ==
  \A i \in Inv : (inv[i].pc = "remove" /\ inv[i].botMember # NoMe) =>
     ~(HasAuthority(Called(i)) /\ Called(i).highestRolePosition >= botPos)

\* C4 witness: the gate was consulted with the bot's record and let a candidate
\* of lower authority through.
C4_Witness ==
  \E i \in Inv : /\ inv[i].pc = "remove"
                 /\ inv[i].botMember = botPos
                 /\ HasAuthority(Called(i))
                 /\ Called(i).highestRolePosition < botPos

Ids(q) == {q[k].id : k \in 1..Len(q)}
NoDuplicates(s) == \A j, k \in 1..Len(s) : j # k => s[j] # s[k]

\* C5: within a pass at most one removal call is issued per candidate, however
\* many invocations the pass spans, and a candidate a call was issued for is not
\* on the queue any more, whether the call succeeded or failed.
C5_AtMostOneCallPerCandidate ==
  \A t \in DOMAIN trackedThreads :
     /\ NoDuplicates(calls[t])
     /\ \A k \in 1..Len(calls[t]) : calls[t][k] \notin Ids(StateOf(t).remainingMembers)
     /\ \A i \in ActiveFor(t) :
          inv[i].pc \in {"remove", "delay"} =>
             \A k \in 1..Len(calls[t]) :
                calls[t][k] \notin Ids(Tail(inv[i].currentBatch))

\* C5 witness: the first removal call of the pass failed (processedCount is
\* still 0) and a later invocation of the same pass has issued its call for the
\* next candidate.
C5_Witness ==
  /\ Len(calls["t1"]) = 2
  /\ batches["t1"] = 2
  /\ StateOf("t1").processedCount = 0
  /\ \E i \in Inv : inv[i].pc = "remove" /\ inv[i].thr = "t1"

\* the removal calls of one invocation that takes the whole queue as its batch
\* (memberTracker.js:391-433 with BATCH_SIZE = N)
RECURSIVE OneInvocation(_, _)
OneInvocation(q, bot) ==
  IF q = <<>> THEN <<>>
  ELSE IF ~Head(q).shouldRemove \/ CannotRemove(Head(q), bot)
    THEN OneInvocation(Tail(q), bot)
  ELSE <<Head(q).id>> \o OneInvocation(Tail(q), bot)
IsPrefix(s, r) == Len(s) <= Len(r) /\ s = SubSeq(r, 1, Len(s))
InvocationsFor(n) == (n + BATCH_SIZE - 1) \div BATCH_SIZE

\* C6: in the role-based reconciler the removal calls of a pass are, in order,
\* a prefix of those one invocation with BATCH_SIZE = N would issue; while the
\* removalState exists fewer than ceil(N/BATCH_SIZE) batches were taken, and once
\* it is deleted exactly that many were taken and the calls are the same.
C6_BatchedEqualsOneInvocation ==
  impl = "role" =>
    \A t \in DOMAIN trackedThreads :
       built[t] # <<>> =>
          LET q == built[t]
              whole == OneInvocation(q, GuildMe)
          IN /\ IsPrefix(calls[t], whole)
             /\ (ActiveFor(t) = {} /\ StateOf(t).exists) =>
                   batches[t] < InvocationsFor(Len(q))
             /\ (ActiveFor(t) = {} /\ ~StateOf(t).exists) =>
                   /\ batches[t] = InvocationsFor(Len(q))
                   /\ calls[t] = whole

\* C6 witness: a queue of two candidates was consumed by two invocations of one
\* candidate each, both calls were issued and the removalState is gone.
C6_Witness ==
  /\ impl = "role"
  /\ built["t1"] # <<>>
  /\ Len(built["t1"]) > BATCH_SIZE
  /\ batches["t1"] = InvocationsFor(Len(built["t1"]))
  /\ Len(calls["t1"]) = Len(built["t1"])
  /\ ActiveFor("t1") = {}
  /\ ~StateOf("t1").exists

\* C7: when the fetch of the thread or of its roster fails for a thread that has
\* a removalState, the invocation leaves processedCount, totalCount and
\* remainingMembers as they were and issues no removal call: neither the failing
\* step nor any step of the invocation before it changes them.
C7_FetchFailureKeepsState ==
  [][\A t \in DOMAIN trackedThreads :
       StateOf(t).exists =>
         /\ (event' # event /\ event' = Event("fetchFailed", t)) =>
               /\ trackedThreads'[t].removalState = StateOf(t)
               /\ calls'[t] = calls[t]
         /\ \A i \in Inv :
               (inv'[i].thr = t /\ inv'[i].pc \in {"fetchThread", "fetchMembers"}) =>
                  /\ trackedThreads'[t].removalState = StateOf(t)
                  /\ calls'[t] = calls[t]]_vars

\* C7 witness: the roster fetch of a continuation has just failed and the
\* thread still has its queue.
C7_Witness ==
  /\ event = Event("fetchFailed", "t1")
  /\ StateOf("t1").exists
  /\ StateOf("t1").remainingMembers # <<>>
  /\ batches["t1"] = 1
  /\ ActiveFor("t1") = {}
\* LeftParentScope: the member could not be resolved in the guild; every other
\* candidate is a RoleMismatch candidate (a regular member in part_000)
IsLeft(c) == c.username = LEFT_GUILD
Queues(t) == {built[t], StateOf(t).remainingMembers}
LeftBeforeOthers(q) ==
  \A j, k \in 1..Len(q) : (j < k /\ IsLeft(q[k])) => IsLeft(q[j])
LeftAscending(q) ==
  \A j, k \in 1..Len(q) :
     (j < k /\ IsLeft(q[j]) /\ IsLeft(q[k])) => q[j].joinTimestamp <= q[k].joinTimestamp
MismatchByAuthority(q) ==
  \A j, k \in 1..Len(q) :
     (j < k /\ ~IsLeft(q[j]) /\ ~IsLeft(q[k])) =>
        \/ q[j].highestRolePosition > q[k].highestRolePosition
        \/ /\ q[j].highestRolePosition = q[k].highestRolePosition
           /\ q[j].joinTimestamp <= q[k].joinTimestamp

\* C8 (as claimed): in the queue of a fresh pass and in every remainingMembers
\* derived from it, every LeftParentScope candidate precedes every RoleMismatch
\* candidate.
C8_LeftBeforeMismatch ==
  \A t \in DOMAIN trackedThreads : \A q \in Queues(t) : LeftBeforeOthers(q)

\* C8 (amended): in the capacity-based reconciler every LeftParentScope
\* candidate precedes every other candidate of the fresh queue and of every
\* remainingMembers; in the role-based reconciler the two reasons are not
\* grouped: of two candidates with different reasons the one that joined the
\* thread later comes first.
C8_LeftBeforeMismatchOrByJoin ==
  \A t \in DOMAIN trackedThreads : \A q \in Queues(t) :
     IF impl = "cap" THEN LeftBeforeOthers(q)
     ELSE \A j, k \in 1..Len(q) :
             (j < k /\ IsLeft(q[j]) # IsLeft(q[k])) =>
                q[j].joinTimestamp >= q[k].joinTimestamp

\* C8 witness: the role-based reconciler built a queue in which a RoleMismatch
\* candidate that joined later stands before a LeftParentScope candidate.
C8_Witness ==
  /\ impl = "role"
  /\ Len(built["t1"]) = 2
  /\ ~IsLeft(built["t1"][1]) /\ IsLeft(built["t1"][2])
  /\ built["t1"][1].joinTimestamp > built["t1"][2].joinTimestamp

\* C9 (as claimed): in the queue of a fresh pass the LeftParentScope candidates
\* are in ascending order of join timestamp.
C9_LeftAscendingJoin ==
  \A t \in DOMAIN trackedThreads : LeftAscending(built[t])

\* C9 (amended): in the queue of a fresh pass the LeftParentScope candidates
\* are in ascending order of join timestamp in the capacity-based reconciler and
\* in descending order (latest joiner first) in the role-based reconciler.
C9_LeftAscendingOrDescendingJoin ==
  \A t \in DOMAIN trackedThreads :
     IF impl = "cap" THEN LeftAscending(built[t])
     ELSE \A j, k \in 1..Len(built[t]) :
             (j < k /\ IsLeft(built[t][j]) /\ IsLeft(built[t][k])) =>
                built[t][j].joinTimestamp >= built[t][k].joinTimestamp

\* C9 witness: the role-based reconciler moved the later joiner of two
\* LeftParentScope candidates in front of the earlier one.
C9_Witness ==
  /\ impl = "role"
  /\ Len(built["t1"]) = 2
  /\ IsLeft(built["t1"][1]) /\ IsLeft(built["t1"][2])
  /\ built["t1"][1].id = 2 /\ built["t1"][2].id = 1
  /\ built["t1"][1].joinTimestamp > built["t1"][2].joinTimestamp

\* C10 (as claimed): in the queue of a fresh pass the RoleMismatch candidates
\* are in descending order of authority-level, equal levels in ascending order
\* of join timestamp.
C10_MismatchByAuthorityThenJoin ==
  \A t \in DOMAIN trackedThreads : MismatchByAuthority(built[t])

\* C10 (amended): that order holds in the capacity-based reconciler; in the
\* role-based reconciler the RoleMismatch candidates are in descending order of
\* join timestamp, whatever their authority-level.
C10_MismatchByAuthorityOrByJoin ==
  \A t \in DOMAIN trackedThreads :
     IF impl = "cap" THEN MismatchByAuthority(built[t])
     ELSE \A j, k \in 1..Len(built[t]) :
             (j < k /\ ~IsLeft(built[t][j]) /\ ~IsLeft(built[t][k])) =>
                built[t][j].joinTimestamp >= built[t][k].joinTimestamp

\* C10 witness: in the capacity-based reconciler two candidates of equal
\* authority-level were put in ascending order of join timestamp, against the
\* order of the roster.
C10_Witness ==
  /\ impl = "cap"
  /\ Len(built["t1"]) = 2
  /\ ~IsLeft(built["t1"][1]) /\ ~IsLeft(built["t1"][2])
  /\ built["t1"][1].highestRolePosition = built["t1"][2].highestRolePosition
  /\ built["t1"][1].id = 2 /\ built["t1"][2].id = 1
  /\ built["t1"][1].joinTimestamp < built["t1"][2].joinTimestamp
\* The queue the role-based builder owes for the roster entries es: the entries
\* that left the guild or are ineligible, later joiners first, entries with
\* the same join timestamp in the order of the roster.
CandidatesOf(es) == {k \in 1..Len(es) : es[k].kind \in {"left", "ineligible"}}
RankIn(es, k) ==
  1 + Cardinality({j \in CandidatesOf(es) :
                     \/ es[j].joinedTimestamp > es[k].joinedTimestamp
                     \/ es[j].joinedTimestamp = es[k].joinedTimestamp /\ j < k})
ExpectedQueue(es) ==
  [r \in 1..Cardinality(CandidatesOf(es)) |->
     LET k == CHOOSE k \in CandidatesOf(es) : RankIn(es, k) = r
     IN [id |-> es[k].id, joinTimestamp |-> es[k].joinedTimestamp,
         highestRolePosition |-> es[k].position, left |-> es[k].kind = "left"]]
QueueAsBuilt(q) ==
  [r \in 1..Len(q) |->
     [id |-> q[r].id, joinTimestamp |-> q[r].joinTimestamp,
      highestRolePosition |-> q[r].highestRolePosition, left |-> IsLeft(q[r])]]

\* C11: the queue of a fresh pass of the role-based builder is a function of
\* the roster enumeration and of the membership, role and authority data it
\* was given, and of nothing else: in every pass, first or later, it is the
\* candidates in descending order of join timestamp with equal timestamps in
\* roster order.
C11_QueueDeterminedByInputs ==
  impl = "role" =>
     \A t \in DOMAIN trackedThreads :
        seen[t] # <<>> => QueueAsBuilt(built[t]) = ExpectedQueue(seen[t])

\* C11 witness: a later pass (the thread was checked before) built a queue of
\* two candidates with the same join timestamp, in roster order.
C11_Witness ==
  /\ impl = "role"
  /\ Len(seen["t1"]) = 2 /\ Len(built["t1"]) = 2
  /\ built["t1"][1].joinTimestamp = built["t1"][2].joinTimestamp
  /\ built["t1"][1].id = 1 /\ built["t1"][2].id = 2
  /\ trackedThreads["t1"].lastCheck = Stamped

NoCandidateSeen(t) == seen[t] # <<>> /\ CandidatesOf(seen[t]) = {}
\* invocation i returns because the roster fetch gave no member
EmptyRosterReturn(i) ==
  /\ inv[i].pc = "fetchMembers"
  /\ inv'[i].pc = "idle"
  /\ event' = Event("emptyRoster", inv[i].thr)

\* C12 (as claimed): a trigger that finds the roster empty, or (role-based
\* builder) finds no unresolvable and no ineligible non-bot member in it, issues
\* no removal call and ends with no removalState for the thread.
C12_NothingToDoLeavesNoState ==
  [][/\ \A i \in Inv :
          EmptyRosterReturn(i) =>
             /\ ~trackedThreads'[inv[i].thr].removalState.exists
             /\ calls'[inv[i].thr] = calls[inv[i].thr]
     /\ impl = "role" =>
          \A t \in DOMAIN trackedThreads :
             NoCandidateSeen(t)' =>
                /\ ~trackedThreads'[t].removalState.exists
                /\ calls'[t] = <<>>
                /\ \A i \in Inv : inv'[i].thr # t]_vars

\* C12 (amended): the same for a trigger that finds no removalState for the
\* thread; with a removalState an empty roster leaves it as it is.
C12_NothingToDoCreatesNoState ==
  [][/\ \A i \in Inv :
          EmptyRosterReturn(i) =>
             /\ calls'[inv[i].thr] = calls[inv[i].thr]
             /\ trackedThreads'[inv[i].thr].removalState = StateOf(inv[i].thr)
             /\ ~StateOf(inv[i].thr).exists => calls'[inv[i].thr] = <<>>
     /\ impl = "role" =>
          \A t \in DOMAIN trackedThreads :
             NoCandidateSeen(t)' =>
                /\ ~trackedThreads'[t].removalState.exists
                /\ calls'[t] = <<>>
                /\ \A i \in Inv : inv'[i].thr # t]_vars

\* C12 witness: the role-based builder looked at a roster of a bot and an
\* eligible member, and the invocation is over with no removalState.
C12_Witness ==
  /\ impl = "role"
  /\ Len(seen["t1"]) = 2
  /\ {seen["t1"][k].kind : k \in 1..2} = {"bot", "eligible"}
  /\ ~StateOf("t1").exists
  /\ ActiveFor("t1") = {}
QueueIds(q) == [k \in 1..Len(q) |-> q[k].id]
\* the gate turned the candidate away (the bot's record is known and its role
\* is not above the candidate's)
DeniedByGate(c) == HasAuthority(c) /\ meCached /\ botPos <= c.highestRolePosition
Handled(c, t) == (\E k \in 1..Len(calls[t]) : calls[t][k] = c.id) \/ DeniedByGate(c)
\* the scenario's first invocation has returned / its second one has
AfterFirst(t) == ActiveFor(t) = {} /\ batches[t] = 1
AfterSecond(t) == ActiveFor(t) = {} /\ batches[t] = 2

\* C13 (as claimed): in the scenario the queue built is [C, D, B]; the first
\* invocation processes C and D, a removal call being issued for D only if the
\* bot's role position is above 7; the second invocation processes B and the
\* removalState is then cleared.
C13_ScenarioAsClaimed ==
  LET q == built["t1"] IN
  /\ q # <<>> => QueueIds(q) = <<3, 4, 2>>
  /\ (\E k \in 1..Len(calls["t1"]) : calls["t1"][k] = 4) => botPos > 7
  /\ AfterFirst("t1") =>
        /\ StateOf("t1").exists
        /\ QueueIds(StateOf("t1").remainingMembers) = <<2>>
        /\ Handled(q[1], "t1") /\ Handled(q[2], "t1")
  /\ AfterSecond("t1") => ~StateOf("t1").exists /\ Handled(q[3], "t1")

\* C13 (amended): in the scenario the queue built holds C, D and B (never A)
\* in descending order of join timestamp, equal timestamps in roster order; it
\* is [C, D, B] when B joined before D and D not after C.  The first invocation
\* processes the first two entries of the queue, the second invocation the
\* third, and the removalState is then cleared.  A removal call is issued for D
\* only if the bot's role position is above 7 or the bot's member record is
\* not available.
C13_ScenarioByJoinOrder ==
  LET q == built["t1"]
      joinOf(id) == LET k == CHOOSE k \in 1..Len(q) : q[k].id = id
                    IN q[k].joinTimestamp
  IN
  /\ q # <<>> =>
        /\ {q[k].id : k \in 1..Len(q)} = {2, 3, 4} /\ Len(q) = 3
        /\ \A j, k \in 1..3 :
              j < k => \/ q[j].joinTimestamp > q[k].joinTimestamp
                       \/ /\ q[j].joinTimestamp = q[k].joinTimestamp
                          /\ q[j].id < q[k].id
        /\ (joinOf(2) < joinOf(4) /\ joinOf(4) <= joinOf(3)) =>
              QueueIds(q) = <<3, 4, 2>>
  /\ (\E k \in 1..Len(calls["t1"]) : calls["t1"][k] = 4) => (botPos > 7 \/ ~meCached)
  /\ AfterFirst("t1") =>
        /\ StateOf("t1").exists
        /\ StateOf("t1").remainingMembers = <<q[3]>>
        /\ Handled(q[1], "t1") /\ Handled(q[2], "t1")
        /\ \A k \in 1..Len(calls["t1"]) : calls["t1"][k] # q[3].id
  /\ AfterSecond("t1") => ~StateOf("t1").exists /\ Handled(q[3], "t1")

\* C13 witness: the queue was [C, D, B], the bot stands above D, two invocations
\* issued the three removal calls in that order and the removalState is gone.
C13_Witness ==
  /\ QueueIds(built["t1"]) = <<3, 4, 2>>
  /\ calls["t1"] = <<3, 4, 2>>
  /\ meCached /\ botPos > 7
  /\ AfterSecond("t1")
  /\ ~StateOf("t1").exists
\* C14: shouldMemberBeInThread answers Eligible if the member holds an ignored
\* role; otherwise Eligible if the thread has no mapped required role;
\* otherwise Eligible exactly when the role set contains the mapped role.
C14_EligibilityRule ==
  evaluation.made =>
    LET holdsIgnored == \E r \in evaluation.roles : r \in ignoredRoles
        mapped == \E t \in DOMAIN threadToRole : t = evaluation.threadId
    IN  /\ holdsIgnored => evaluation.result
        /\ (~holdsIgnored /\ ~mapped) => evaluation.result
        /\ (~holdsIgnored /\ mapped) =>
              (evaluation.result <=>
                 \E r \in evaluation.roles : r = threadToRole[evaluation.threadId])

\* C14 witness: a member without an ignored role, with some role but not the
\* one the thread requires, was evaluated and found ineligible.
C14_Witness ==
  /\ evaluation.made
  /\ evaluation.roles # {}
  /\ evaluation.roles \cap ignoredRoles = {}
  /\ evaluation.threadId \in DOMAIN threadToRole
  /\ ~evaluation.result
SkippedFor(whys) == {s \in boot.skipped : s.why \in whys}
Tracked == DOMAIN trackedThreads

\* C19 (as claimed): init never completes successfully after dropping a tier
\* whose ROLE_n_ID is missing or whose THREAD_n_ID does not resolve to a valid
\* thread.
C19_InitFailsOnBadTier ==
  boot.pc = "ready" => SkippedFor({"noRole", "invalid", "error"}) = {}

\* C19 (amended): init fails exactly when there is no THREAD_n_ID variable or
\* no tier yields a tracked thread.  When it completes, every tier with an
\* empty thread id, without a ROLE_n_ID, or whose thread id does not resolve to
\* a valid thread has been skipped, every other tier's thread is tracked, and
\* at least one thread is tracked.
C19_InitFailsOnlyWithoutValidTier ==
  /\ boot.pc = "failed" => Tracked = {}
  /\ boot.pc = "ready" =>
        /\ Tracked # {}
        /\ \A k \in 1..Len(boot.config) :
              LET tier == boot.config[k]
                  why == {s.why : s \in {x \in boot.skipped : x.index = k}}
              IN  /\ tier.thread = "" => why = {"noThread"}
                  /\ (tier.thread # "" /\ tier.role = "") => why = {"noRole"}
                  /\ (tier.thread # "" /\ tier.role # "") =>
                        \/ why = {} /\ tier.thread \in Tracked
                        \/ why \in {{"invalid"}, {"error"}}

\* C19 witness: init completed with one thread tracked although another tier's
\* THREAD_n_ID did not resolve to a valid thread.
C19_Witness ==
  /\ boot.pc = "ready"
  /\ Len(boot.config) = 2
  /\ SkippedFor({"invalid"}) # {}
  /\ Cardinality(Tracked) = 1

\* C20: after init no two tracked threads map to the same role, no two roles
\* map to the same thread, and roleToThread and threadToRole are inverses.
C20_MappingUniqueBothWays ==
  boot.pc = "ready" =>
    /\ \A t, u \in DOMAIN threadToRole :
          threadToRole[t] = threadToRole[u] => t = u
    /\ \A r, q \in DOMAIN roleToThread :
          roleToThread[r] = roleToThread[q] => r = q
    /\ \A t \in DOMAIN threadToRole :
          /\ threadToRole[t] \in DOMAIN roleToThread
          /\ roleToThread[threadToRole[t]] = t
    /\ \A r \in DOMAIN roleToThread :
          /\ roleToThread[r] \in DOMAIN threadToRole
          /\ threadToRole[roleToThread[r]] = r
IdsOfKind(es, kinds) == {es[k].id : k \in {j \in 1..Len(es) : es[j].kind \in kinds}}
IdsWithReason(q, reason) == {q[k].id : k \in {j \in 1..Len(q) : q[j].reason = reason}}

\* C15: the candidates a fresh pass of the role-based version enqueues are
\* exactly the roster entries that cannot be resolved in the guild (reason
\* "No longer in guild") and the resolvable non-bot entries evaluated
\* ineligible (reason "Role does not match thread"); bots and eligible members
\* are never enqueued.
C15_EnqueuedExactlyLeftAndIneligible ==
  impl = "role" =>
    \A t \in DOMAIN trackedThreads :
      seen[t] # <<>> =>
        /\ IdsWithReason(built[t], "No longer in guild") = IdsOfKind(seen[t], {"left"})
        /\ IdsWithReason(built[t], "Role does not match thread")
             = IdsOfKind(seen[t], {"ineligible"})
        /\ Ids(built[t]) \cap IdsOfKind(seen[t], {"bot", "eligible"}) = {}
        /\ Len(built[t]) = Cardinality(CandidatesOf(seen[t]))

\* C15 witness: a fresh pass met a bot and an ineligible member and enqueued the
\* latter only.
C15_Witness ==
  /\ impl = "role"
  /\ Len(seen["t1"]) = 2
  /\ {seen["t1"][k].kind : k \in 1..2} = {"bot", "ineligible"}
  /\ Len(built["t1"]) = 1
  /\ built["t1"][1].reason = "Role does not match thread"
\* the queue an invocation slices its batch from: the one it has just built, or
\* the one the previous invocation left in removalState
QueueBefore(t) ==
  IF seen'[t] # <<>> THEN built'[t] ELSE StateOf(t).remainingMembers
RemainingAfter(t) == trackedThreads'[t].removalState.remainingMembers

\* C16: an invocation that slices a batch off the queue leaves the queue
\* shorter by min(BATCH_SIZE, its length); no other step of a pass changes the
\* queue, so its length never increases from one batch to the next.
C16_QueueShrinksByBatch ==
  [][\A t \in DOMAIN trackedThreads :
       /\ (batches'[t] = batches[t] + 1 /\ trackedThreads'[t].removalState.exists) =>
             Len(RemainingAfter(t))
               = Len(QueueBefore(t)) - Min(batchSize, Len(QueueBefore(t)))
       /\ (/\ batches'[t] = batches[t]
           /\ StateOf(t).exists
           /\ trackedThreads'[t].removalState.exists
           /\ seen'[t] = <<>>) =>
             RemainingAfter(t) = StateOf(t).remainingMembers]_vars

\* C16 witness: a queue of two was built, the first invocation took one entry
\* and is waiting for its removal call, one entry remains.
C16_Witness ==
  /\ Len(built["t1"]) = 2
  /\ batches["t1"] = 1
  /\ StateOf("t1").exists
  /\ Len(StateOf("t1").remainingMembers) = 1
  /\ \E i \in ActiveFor("t1") : inv[i].pc = "remove"
\* C17: whenever a thread has a removalState, processedCount is at most
\* totalCount (targetCount in the capacity-based version), also while the queue
\* is being built and between the items of a batch.
C17_ProcessedAtMostTotal ==
  \A t \in DOMAIN trackedThreads :
    StateOf(t).exists => StateOf(t).processedCount <= StateOf(t).totalCount

\* C17 witness: in the middle of the second batch of a queue of two, one
\* candidate has been processed and a removal call is awaited for the other.
C17_Witness ==
  /\ StateOf("t1").exists
  /\ StateOf("t1").processedCount = 1
  /\ StateOf("t1").totalCount = 2
  /\ batches["t1"] = 2
  /\ \E i \in ActiveFor("t1") : inv[i].pc = "remove"
\* C18: whenever no invocation is active for a thread, the thread has a
\* removalState only if its remainingMembers is not empty.
C18_IdleStateHasWork ==
  \A t \in DOMAIN trackedThreads :
    (ActiveFor(t) = {} /\ t \notin processingThreads /\ StateOf(t).exists) =>
       StateOf(t).remainingMembers # <<>>

\* C18 witness: a queue of two, the first batch is over and its removal call
\* was issued; the state is retained with the one remaining candidate and the
\* updated counter.
C18_Witness ==
  /\ ActiveFor("t1") = {}
  /\ "t1" \notin processingThreads
  /\ StateOf("t1").exists
  /\ Len(StateOf("t1").remainingMembers) = 1
  /\ StateOf("t1").processedCount = 1
  /\ Len(calls["t1"]) = 1
  /\ Len(built["t1"]) = 2
\* the tracked threads other than t keep their threadConfig in this step
OthersUntouched(t) ==
  \A u \in DOMAIN trackedThreads \ {t} :
    u \in DOMAIN trackedThreads' /\ trackedThreads'[u] = trackedThreads[u]

\* C21: a tick that is through has called the entry point for every tracked
\* thread, whatever happened to the threads before it; a step in which the
\* check of one thread fails leaves every other thread's threadConfig, and the
\* tick itself, as they were.
C21_TickIsolatesFailures ==
  /\ [](tick.pc = "done" => tick.visited = DOMAIN trackedThreads)
  /\ [][\A t \in Threads :
          event' = Event("fetchFailed", t) =>
             /\ OthersUntouched(t)
             /\ tick.pc = "wait" => (tick'.pc = "wait" /\ tick'.todo = tick.todo)]_vars

\* C21 witness: in one tick the check of t1 failed on a fetch, and the check
\* of t2 that followed started a pass and issued a removal call.
C21_Witness ==
  /\ tick.pc = "wait"
  /\ tick.failed = {"t1"}
  /\ tick.todo = <<"t2">>
  /\ tick.slot \in Inv
  /\ inv[tick.slot].pc = "remove"
  /\ inv[tick.slot].thr = "t2"
  /\ ~StateOf("t1").exists
CalledIds(t) == {calls[t][k] : k \in 1..Len(calls[t])}
\* The number of queue entries the batches sliced so far cover
Sliced(t) ==
  IF batches[t] * batchSize < Len(built[t]) THEN batches[t] * batchSize
  ELSE Len(built[t])

\* C24: every invocation slices its batch off the front of the queue and handles
\* at most BATCH_SIZE candidates; the candidates behind the batches sliced so
\* far have no removal call, are not counted, and stay queued in their order.
C24_BatchFromFrontOnly ==
  \A t \in DOMAIN trackedThreads :
     /\ \A i \in ActiveFor(t) : Len(inv[i].currentBatch) <= batchSize
     /\ CalledIds(t) \subseteq IF built[t] = <<>> THEN {}
                                ELSE {built[t][k].id : k \in 1..Sliced(t)}
     /\ StateOf(t).exists =>
          /\ StateOf(t).remainingMembers = Drop(built[t], Sliced(t))
          /\ StateOf(t).processedCount <= Sliced(t)

\* C24 witness: the first batch is through, its candidate was removed and
\* counted, and the candidate behind it is still queued.
C24_Witness ==
  /\ AfterFirst("t1")
  /\ Len(built["t1"]) = 2
  /\ calls["t1"] = <<built["t1"][1].id>>
  /\ StateOf("t1").exists
  /\ StateOf("t1").processedCount = 1
  /\ StateOf("t1").remainingMembers = <<built["t1"][2]>>
\* The front of the built queue the batch loop has gone past: everything sliced
\* so far, less what the running batch loop still holds
Passed(t) ==
  LET held == {i \in ActiveFor(t) : inv[i].pc \in {"remove", "delay"}}
  IN IF held = {} THEN Take(built[t], Sliced(t))
     ELSE Take(built[t], Sliced(t) - Len(inv[CHOOSE i \in held : TRUE].currentBatch))
DeniedIds(q) == {q[k].id : k \in {j \in 1..Len(q) : DeniedByGate(q[j])}}

\* C25: a candidate the authority gate turns away is counted as processed once,
\* no removal call is issued for it, and it is not put back on the queue (the
\* bot member being the cached one, whose position the gate compares).
C25_DeniedCountedNotRemoved ==
  \A t \in DOMAIN trackedThreads :
     (impl = "role" \/ meCached) =>
        LET denied == DeniedIds(Passed(t))
        IN /\ denied \cap CalledIds(t) = {}
           /\ StateOf(t).exists =>
                /\ denied \cap Ids(StateOf(t).remainingMembers) = {}
                /\ Cardinality(denied) <= StateOf(t).processedCount
                /\ StateOf(t).processedCount <= Cardinality(denied) + Len(calls[t])

\* C25 witness: the first batch held one candidate, the gate turned it away;
\* it is counted, was not called for, and only the second candidate is queued.
C25_Witness ==
  /\ AfterFirst("t1")
  /\ Len(built["t1"]) = 2
  /\ DeniedByGate(built["t1"][1])
  /\ calls["t1"] = <<>>
  /\ StateOf("t1").exists
  /\ StateOf("t1").processedCount = 1
  /\ StateOf("t1").remainingMembers = <<built["t1"][2]>>
\* The candidates of a batch the loop will issue a removal call for
Removable(batch, botMember) ==
  SelectSeq(batch, LAMBDA c : c.shouldRemove /\ ~CannotRemove(c, botMember))

\* C26: when a removal call settles, processedCount goes up by one if it
\* succeeded and stays as it is if it failed; either way the invocation keeps
\* its batch, and after the delay the loop issues the call for the next
\* candidate of the batch it may remove.
C26_CountOnSuccessBatchGoesOn ==
  [][\A i \in Inv :
       LET t == inv[i].thr IN
       /\ (inv[i].pc = "remove" /\ inv'[i] # inv[i]) =>
            /\ event' \in {Event("removed", t), Event("removeFailed", t)}
            /\ trackedThreads'[t].removalState.processedCount =
                 StateOf(t).processedCount + (IF event'.what = "removed" THEN 1 ELSE 0)
            /\ inv'[i] = [inv[i] EXCEPT !.pc = "delay"]
            /\ calls' = calls
       /\ (inv[i].pc = "delay" /\ inv'[i] # inv[i]) =>
            LET next == Removable(Tail(inv[i].currentBatch), inv[i].botMember)
            IN IF next = <<>> THEN inv'[i] = Idle /\ calls' = calls
               ELSE /\ inv'[i].pc = "remove"
                    /\ Head(inv'[i].currentBatch) = Head(next)
                    /\ calls'[t] = Append(calls[t], Head(next).id)]_vars

\* C26 witness: the call for the first candidate of the batch failed (it is not
\* counted) and the call for the second candidate is out.
C26_Witness ==
  \E i \in ActiveFor("t1") :
     /\ inv[i].pc = "remove"
     /\ Len(calls["t1"]) = 2
     /\ batches["t1"] = 1
     /\ StateOf("t1").processedCount = 0
\* Where a candidate stands in the queue as built
PosIn(q, id) == CHOOSE k \in 1..Len(q) : q[k].id = id

\* C27: a thread never has more than one removal call outstanding, and the
\* calls of a pass are issued in the order of its queue.
C27_OneCallAtATimeInQueueOrder ==
  \A t \in DOMAIN trackedThreads :
     /\ Cardinality({i \in ActiveFor(t) : inv[i].pc = "remove"}) <= 1
     /\ CalledIds(t) \subseteq Ids(built[t])
     /\ \A j, k \in 1..Len(calls[t]) :
          j < k => PosIn(built[t], calls[t][j]) < PosIn(built[t], calls[t][k])

\* C27 witness: the third removal call of a pass is outstanding, in its second
\* batch.
C27_Witness ==
  /\ Len(calls["t1"]) = 3
  /\ batches["t1"] = 2
  /\ Cardinality({i \in ActiveFor("t1") : inv[i].pc = "remove"}) = 1
  /\ processingThreads = {"t1"}
\* An invocation for thread t took a step (it started, moved on or returned)
Stepped(t) ==
  \E i \in Inv : inv'[i] # inv[i] /\ (inv[i].thr = t \/ inv'[i].thr = t)

\* C28: the threads are independent: a trigger is skipped only when the guard of
\* its own thread is held, and a step of an invocation for one thread leaves
\* the other thread's threadConfig, guard, invocation and record of calls as
\* they are.
C28_ThreadsIndependent ==
  [][\A t \in DOMAIN trackedThreads :
       /\ event' = Event("skipped", t) => t \in processingThreads
       /\ Stepped(t) =>
            \A u \in DOMAIN trackedThreads \ {t} :
               /\ trackedThreads'[u] = trackedThreads[u]
               /\ (u \in processingThreads') = (u \in processingThreads)
               /\ \A j \in ActiveFor(u) : inv'[j] = inv[j]
               /\ calls'[u] = calls[u]
               /\ built'[u] = built[u]
               /\ batches'[u] = batches[u]]_vars

\* C28 witness: while the pass for t1 is suspended in a removal call, in its
\* second batch, a trigger for t2 was admitted and the pass for t2 has built
\* its own queue.
C28_Witness ==
  \E i, j \in Inv :
     /\ inv[i].thr = "t1" /\ inv[i].pc = "remove" /\ batches["t1"] = 2
     /\ inv[j].thr = "t2" /\ inv[j].pc = "remove" /\ batches["t2"] = 1
     /\ processingThreads = {"t1", "t2"}
     /\ StateOf("t2").remainingMembers # <<>>
IsSuffix(s, r) == Len(s) <= Len(r) /\ s = SubSeq(r, Len(r) - Len(s) + 1, Len(r))

\* C29: an invocation that finds a removalState does not build the queue again
\* but goes on with the stored one; remainingMembers is always a suffix of the
\* queue the fresh pass built.
C29_ContinuationKeepsQueue ==
  /\ [](\A t \in DOMAIN trackedThreads :
          StateOf(t).exists => IsSuffix(StateOf(t).remainingMembers, built[t]))
  /\ [][\A i \in Inv :
          LET t == inv[i].thr IN
          (inv[i].pc = "fetchMembers" /\ inv'[i] # inv[i] /\ StateOf(t).exists) =>
             /\ inv'[i].pc # "build"
             /\ built'[t] = built[t]
             /\ trackedThreads'[t].removalState.exists =>
                  IsSuffix(RemainingAfter(t), StateOf(t).remainingMembers)]_vars

\* C29 witness: the second invocation of a pass found the removalState, took
\* the rest of the queue as its batch and has a removal call out.
C29_Witness ==
  \E i \in ActiveFor("t1") :
     /\ inv[i].pc = "remove"
     /\ inv[i].roster = <<>>
     /\ batches["t1"] = 2
     /\ Len(built["t1"]) = 2
     /\ inv[i].currentBatch = <<built["t1"][2]>>
     /\ StateOf("t1").remainingMembers = <<>>
\* C30: a candidate that left the guild has no role position and passes the
\* authority gate whatever the bot's position: every such candidate the batch
\* loop has reached has a removal call (role-based version).
C30_LeftCandidatesAlwaysCalled ==
  \A t \in DOMAIN trackedThreads :
     impl = "role" =>
        \A k \in 1..Len(Passed(t)) :
           IsLeft(Passed(t)[k]) =>
              /\ ~HasAuthority(Passed(t)[k])
              /\ Passed(t)[k].id \in CalledIds(t)

\* C30 witness: the bot member is known, and the removal call for a candidate
\* that left the guild is out although no position can be compared.
C30_Witness ==
  \E i \in ActiveFor("t1") :
     /\ impl = "role" /\ meCached
     /\ inv[i].pc = "delay"
     /\ inv[i].botMember = botPos
     /\ IsLeft(Head(inv[i].currentBatch))
     /\ calls["t1"] = <<Head(inv[i].currentBatch).id>>
\* C31: an invocation that comes upon a removalState whose remainingMembers is
\* missing or not an array deletes the state and returns without a removal
\* call; the next invocation that gets the roster builds the queue anew.
C31_InvalidStateDiscarded ==
  [][\A i \in Inv :
       LET t == inv[i].thr IN
       (inv[i].pc = "fetchMembers" /\ inv'[i] # inv[i]) =>
          /\ (~StateOf(t).isArray /\ event'.what \notin {"fetchFailed", "emptyRoster"}) =>
                /\ event' = Event("invalidState", t)
                /\ ~trackedThreads'[t].removalState.exists
                /\ inv'[i] = Idle
                /\ calls' = calls
          /\ (~StateOf(t).exists /\ event'.what \notin {"fetchFailed", "emptyRoster"}) =>
                /\ inv'[i].pc = "build"
                /\ trackedThreads'[t].removalState = NewState(0)]_vars

\* C31 witness: the invalid state was deleted without a call and the next
\* invocation is building the queue.
C31_Witness ==
  \E i \in ActiveFor("t1") :
     /\ inv[i].pc = "build"
     /\ inv[i].roster # <<>>
     /\ StateOf("t1") = NewState(0)
     /\ calls["t1"] = <<>>
\* C32: between two removal calls of a thread the pacing delay elapses: while a
\* call is outstanding or the delay after it is running, the only step that
\* issues the next call is the one in which that delay ends.
C32_DelayBetweenCalls ==
  [][\A t \in DOMAIN trackedThreads :
       Len(calls'[t]) > Len(calls[t]) =>
          \A i \in ActiveFor(t) :
             /\ inv[i].pc # "remove"
             /\ inv[i].pc = "delay" => inv'[i] # inv[i]]_vars

\* C32 witness: the delay after the second call of a batch is running, both
\* calls having succeeded.
C32_Witness ==
  \E i \in ActiveFor("t1") :
     /\ inv[i].pc = "delay"
     /\ Len(calls["t1"]) = 2
     /\ batches["t1"] = 1
     /\ StateOf("t1").processedCount = 2
     /\ event = Event("removed", "t1")
\* C33: while the tracker is running (after init, before shutdown) no step of a
\* trigger or of a pass adds or removes a tracked thread or changes the two
\* role mappings or the set of ignored roles.
C33_DirectoryReadOnly ==
  [][(boot.pc = "ready" /\ boot'.pc = "ready") =>
        /\ DOMAIN trackedThreads' = DOMAIN trackedThreads
        /\ roleToThread' = roleToThread
        /\ threadToRole' = threadToRole
        /\ ignoredRoles' = ignoredRoles]_vars

\* C33 witness: the tracker is running, a whole pass with a removal call is
\* through, and the directory is as init left it.
C33_Witness ==
  /\ boot.pc = "ready"
  /\ ActiveFor("t1") = {}
  /\ calls["t1"] # <<>>
  /\ trackedThreads["t1"].lastCheck = Stamped
  /\ ~StateOf("t1").exists
  /\ DOMAIN trackedThreads = {"t1"}
  /\ roleToThread = [r \in {"r1"} |-> "t1"]
  /\ threadToRole = [t \in {"t1"} |-> "r1"]
  /\ ignoredRoles = {"ig"}
\* The part of the running batch the loop of invocation i has gone past
BatchPassed(i) ==
  LET t == inv[i].thr
  IN SubSeq(built[t], (batches[t] - 1) * batchSize + 1,
            Sliced(t) - Len(inv[i].currentBatch))
ToRemove(c) == impl = "role" => c.shouldRemove
TargetReached(t) == impl = "cap" /\ StateOf(t).processedCount >= StateOf(t).totalCount

\* C34 (as claimed): without a bot member the batch is not aborted: after the
\* delay the loop issues the removal call for the next candidate of the batch,
\* whatever its role position.
C34_NoBotMemberCallsWholeBatch ==
  [][\A i \in Inv :
       LET t == inv[i].thr
           rest == Tail(inv[i].currentBatch)
       IN (/\ inv[i].pc = "delay" /\ inv'[i] # inv[i]
           /\ inv[i].botMember = NoMe
           /\ rest # <<>> /\ ToRemove(Head(rest))) =>
             /\ inv'[i].pc = "remove"
             /\ calls'[t] = Append(calls[t], Head(rest).id)]_vars

\* C34 (amended): without a bot member the authority check is skipped: every
\* candidate the batch loop has gone past has a removal call, and after the
\* delay the loop issues the call for the next candidate of the batch, whatever
\* its role position, unless the capacity-based loop has reached its target
\* count and stops.
C34_NoBotMemberCallsUpToTarget ==
  /\ [](\A i \in Inv :
          (inv[i].pc \in {"remove", "delay"} /\ inv[i].botMember = NoMe) =>
             \A k \in 1..Len(BatchPassed(i)) :
                ToRemove(BatchPassed(i)[k]) =>
                   BatchPassed(i)[k].id \in CalledIds(inv[i].thr))
  /\ [][\A i \in Inv :
          LET t == inv[i].thr
              rest == Tail(inv[i].currentBatch)
          IN (/\ inv[i].pc = "delay" /\ inv'[i] # inv[i]
              /\ inv[i].botMember = NoMe
              /\ rest # <<>> /\ ToRemove(Head(rest))
              /\ ~TargetReached(t)) =>
                /\ inv'[i].pc = "remove"
                /\ calls'[t] = Append(calls[t], Head(rest).id)]_vars

\* C34 witness: there is no bot member, and the call for the second candidate
\* of the batch is out although its role position is not below the bot's.
C34_Witness ==
  \E i \in ActiveFor("t1") :
     /\ inv[i].pc = "remove"
     /\ inv[i].botMember = NoMe
     /\ batches["t1"] = 1
     /\ Len(calls["t1"]) = 2
     /\ HasAuthority(Head(inv[i].currentBatch))
     /\ Head(inv[i].currentBatch).highestRolePosition >= botPos
\* The candidates of the pass that are dealt with: those the loop has gone
\* past and the one whose removal call has settled
Consumed(t) ==
  Len(Passed(t)) + Cardinality({i \in ActiveFor(t) : inv[i].pc = "delay"})
\* How many of them are not counted in processedCount
Uncounted(t) == Consumed(t) - StateOf(t).processedCount

\* C35: processedCount counts the consumed candidates whose removal call
\* succeeded or that the gate denied: it falls behind the number of consumed
\* candidates by one with every failed call and by nothing else, so at the end
\* of a batch processedCount <= totalCount - |remainingMembers|, with equality
\* as long as no call has failed.
C35_ProcessedCountsSuccessAndDenied ==
  /\ [](\A t \in DOMAIN trackedThreads :
          (StateOf(t).exists /\ built[t] # <<>>) =>
             /\ Uncounted(t) >= 0
             /\ ActiveFor(t) = {} =>
                  /\ Consumed(t) = StateOf(t).totalCount - Len(StateOf(t).remainingMembers)
                  /\ StateOf(t).processedCount <= Consumed(t))
  /\ [][\A t \in DOMAIN trackedThreads :
          (StateOf(t).exists /\ trackedThreads'[t].removalState.exists) =>
             Uncounted(t)' =
               Uncounted(t) + (IF event' = Event("removeFailed", t) /\ event' # event
                               THEN 1 ELSE 0)]_vars

\* C35 witness: the first batch of two is through; one candidate was denied by
\* the gate and the call for the other succeeded, so processedCount is
\* totalCount less the queue that remains.
C35_Witness ==
  /\ AfterFirst("t1")
  /\ StateOf("t1").exists
  /\ Len(calls["t1"]) = 1
  /\ Cardinality(DeniedIds(Passed("t1"))) = 1
  /\ StateOf("t1").processedCount = 2
  /\ StateOf("t1").processedCount =
       StateOf("t1").totalCount - Len(StateOf("t1").remainingMembers)
\* C36: in the capacity-based version, with triggers that keep arriving and
\* roster fetches that succeed, a removalState that is persisted is deleted at
\* some later point, whatever the size of the roster has become.
C36_CapStateEventuallyDeleted ==
  [](impl = "cap" /\ StateOf("t1").exists => <>(~StateOf("t1").exists))

\* C36: a removalState with candidates left is persisted and the roster is
\* then found within maxMembers: the invocation returns with the state kept.
C36_StateKeptWithinLimit ==
  /\ impl = "cap"
  /\ ActiveFor("t1") = {}
  /\ StateOf("t1").exists
  /\ StateOf("t1").remainingMembers # <<>>
  /\ batches["t1"] = 1
  /\ event = NoEvent
ActiveRuns == {r \in Runs : cleaner.run[r].pc # "idle"}

\* C37: isRunning is set exactly while one run of performCleanup or
\* cleanSpecificThread is under way: never are two runs under way, the flag is
\* clear whenever no run is, and a call that is made while a run is under way
\* starts no run and leaves the run that is there as it was.
C37_IsRunningExactlyWhileOneRun ==
  /\ [](/\ Cardinality(ActiveRuns) <= 1
        /\ cleaner.isRunning <=> ActiveRuns # {})
  /\ [][(ActiveRuns # {} /\ cleaner'.last \in {"skipped", "notConfigured", "started"})
          => /\ cleaner'.last = "skipped"
             /\ cleaner'.run = cleaner.run
             /\ cleaner'.isRunning = cleaner.isRunning]_vars

\* C37 witness: a call was skipped while a run, which has removed a member,
\* is waiting for its next removal call to settle.
C37_Witness ==
  /\ cleaner.last = "skipped"
  /\ cleaner.isRunning
  /\ \E r \in Runs : cleaner.run[r].pc = "remove" /\ cleaner.run[r].removed = 1
\* The handles of a thread whose done() decrements and has not been called
Outstanding(t) ==
  Cardinality({o \in Ops : nameOps[o].pc = "holding" /\ nameOps[o].counted
                            /\ nameOps[o].thr = t})

\* C38: the pendingOps of every entry of the thread-name cache is the number
\* of handles of that thread whose done() is still to come, and it is never
\* negative; the cleanup timer deletes no entry while such a handle is out.
C38_PendingOpsCountsHandles ==
  /\ [](\A t \in NameThreads :
           threadNameCache[t].cached =>
              /\ threadNameCache[t].pendingOps = Outstanding(t)
              /\ threadNameCache[t].pendingOps >= 0)
  /\ [][\A t \in NameThreads :
           (threadNameCache[t].cached /\ ~threadNameCache'[t].cached)
              => Outstanding(t) = 0]_vars

\* C38: the three parts of the claim, one by one
C38_CountIsExact ==
  \A t \in NameThreads :
     threadNameCache[t].cached => threadNameCache[t].pendingOps = Outstanding(t)
C38_NeverNegative ==
  \A t \in NameThreads : threadNameCache[t].pendingOps >= 0
C38_NoEvictionWhileHeld ==
  [][\A t \in NameThreads :
        (threadNameCache[t].cached /\ ~threadNameCache'[t].cached)
           => Outstanding(t) = 0]_vars
\* The places of the store at which a url is held
StoredAt(text) ==
  {<<c, k>> \in Channels \X (1..(2 * MaxHandlers + 2)) :
      k <= Len(urls[c]) /\ Trim(urls[c][k].url) = Url(text)}

\* C39: whatever the interleaving of handleUrlMessage and addUrl, every trimmed
\* url is held at most once in all the channels of the store together.
C39_UrlStoredAtMostOnce ==
  \A text \in {"u", "x"} : Cardinality(StoredAt(text)) <= 1

\* C39: addUrl on its own never stores a url that the store already has.
C39_AddUrlKeepsUrlsUnique ==
  [][(urlOps' = urlOps /\ \A text \in {"u", "x"} : Cardinality(StoredAt(text)) <= 1)
       => \A text \in {"u", "x"} : Cardinality(StoredAt(text))' <= 1]_vars
====
